---- MODULE Spec2Model ----
(***************************************************************************)
(* Model of the structural math editor: the expression tree               *)
(* (MathExpression / MathNode), the path-based CursorLocation, the Cursor *)
(* with its navigation and mutation operations, the keyboard dispatch     *)
(* (Cursor.handleKeydown) and the search menu that calls back into the    *)
(* cursor.                                                                *)
(*                                                                         *)
(* An expression is the sequence of its nodes.  A node is a record        *)
(*   [cls, args, children]                                                *)
(* with cls the class name, args the constructor arguments and children   *)
(* the sequence of its child expressions.  Indices (nodeIndex,            *)
(* childIndex, _cursorIndex) are 0-based as in the source; the k-th       *)
(* element of a JavaScript array a is a[k + 1] here.                      *)
(***************************************************************************)
EXTENDS Integers, Sequences, FiniteSets, Bags, TLC

VARIABLES
    root,                    \* Cursor.root / CursorLocation._root: the root expression
    path,                    \* CursorLocation._path
    cursorIndex,             \* Cursor._cursorIndex
    focused,                 \* Cursor._focused
    blinkState,              \* Cursor._blinkState
    lastBlinkInterrupt,      \* Cursor._lastBlinkInterrupt
    now,                     \* Date.now(), in milliseconds
    nextTick,                \* when the blink timer (setInterval) is due next
    lastFocus,               \* <<t>>: focus() was last called at t, no blur() since; else <<>>
    onUpdateCallbacks,       \* Cursor._onUpdateCallbacks
    onRequestFocusCallbacks, \* Cursor._onRequestFocusCallbacks
    isOpen,                  \* SearchMenu._isOpen
    currentElement,          \* SearchMenu._currentElement: "null" or "popup"
    popups,                  \* number of popup elements attached to document.body
    clickListeners,          \* number of "click" listeners registered on document
    registered,              \* SearchMenuRegistry._items, as the calls that filled it
    held,                    \* the node objects the host built and holds, by id
    op,                      \* the last call: [name, args]
    pre,                     \* (root, path, cursorIndex) when the last call started
    err,                     \* "none" or the message of the error the last call threw
    ret,                     \* the last call's return value (NoValue when void)
    notes,                   \* what each update callback observed during the last call
    focusCalls               \* focus-requested callbacks invoked during the last call

vars == <<root, path, cursorIndex, focused, blinkState, lastBlinkInterrupt, now,
          nextTick, lastFocus, onUpdateCallbacks, onRequestFocusCallbacks, isOpen, currentElement,
          popups, clickListeners, registered, held, op, pre, err, ret, notes, focusCalls>>

(***************************************************************************)
(* Bounds of the model.                                                    *)
(***************************************************************************)
MaxNodes == 3       \* nodes in the whole tree
MaxRenderedNodes == 3   \* places of the tree that is rendered
MaxDetachedNodes == 1   \* objects the host holds outside the rendered tree
MaxKeyedNodes == 2  \* nodes in a tree built by key events and menu selections alone
MaxListeners == 1   \* times the search menu is opened in one behaviour
StartTime == 1000   \* Date.now() when the cursor is constructed
TimeStep == 250     \* milliseconds between two readings of the clock
MaxElapsed == 2000  \* milliseconds a behaviour lasts

\* The blink timer of the Cursor constructor.
DebounceWindow == 500
BlinkInterval == 700

NoValue == [void |-> TRUE]
NoError == "none"
TypeError == "TypeError"
ErrRemoveOutOfBounds == "Attempted to remove node out of bounds"
ErrTopLevelLinkEmpty == "Cannot get top level cursor path link; stack is empty"
ErrPopEmpty == "Cannot pop cursor path link off stack; stack is empty"
ErrNoEnclosingNode == "No enclosing node to remove"
ErrCursorNotDisplayed == "Cursor is not being displayed!"

(***************************************************************************)
(* Node classes (math.ts, mathelements.ts).                                *)
(***************************************************************************)
MathCharacter(character) ==
    [cls |-> "MathCharacter", args |-> <<character>>, children |-> <<>>]

SingleChildMathNode(cls, args) ==
    [cls |-> cls, args |-> args, children |-> << <<>> >>]

DoubleChildMathNode(cls, args) ==
    [cls |-> cls, args |-> args, children |-> << <<>>, <<>> >>]

Bracket(opening, closing) == SingleChildMathNode("Bracket", <<opening, closing>>)
Fraction == DoubleChildMathNode("Fraction", <<>>)
Superscript == [cls |-> "Superscript", args |-> <<>>, children |-> << <<>> >>]
Subscript == [cls |-> "Subscript", args |-> <<>>, children |-> << <<>> >>]
Limit == SingleChildMathNode("Limit", <<>>)
Sum == DoubleChildMathNode("Sum", <<>>)
IntegralType(commandName) == DoubleChildMathNode("IntegralType", <<commandName>>)
EvaluatedFrom == DoubleChildMathNode("EvaluatedFrom", <<>>)
Product == DoubleChildMathNode("Product", <<>>)
BigUnion == DoubleChildMathNode("BigUnion", <<>>)
BigIntersection == DoubleChildMathNode("BigIntersection", <<>>)
SubscriptableFunction(name) == SingleChildMathNode("SubscriptableFunction", <<name>>)
CommandEnclosable(command) == SingleChildMathNode("CommandEnclosable", <<command>>)

(***************************************************************************)
(* Object identity.  Every MathNode object has the id its constructor      *)
(* drew with _provisionNewID(), sixteen random hexadecimal digits, and       *)
(* keeps it for life.  A node carries it in the field id wherever the      *)
(* object matters: in the specifications that read ids (rendering) or      *)
(* hand one object to the editor twice.  Two places of the tree hold the   *)
(* same object exactly when their nodes have the same id (the random ids   *)
(* of distinct objects are taken to differ); nodes without the field are   *)
(* objects of their own, built by the cursor at the call that inserts them. *)
(***************************************************************************)
\* The object `new X(...)` of the caller with the id o it was given
HeldNode(node, o) ==
    [cls |-> node.cls, args |-> node.args, children |-> node.children, id |-> o]

\* The number of places of the tree under expression that hold the
\* object with the id o.
RECURSIVE ObjectOccurrences(_, _)
ObjectOccurrences(expression, o) ==
    IF expression = <<>> THEN 0
    ELSE LET node == Head(expression)
             RECURSIVE inChildren(_)
             inChildren(cs) == IF cs = <<>> THEN 0
                               ELSE ObjectOccurrences(Head(cs), o) + inChildren(Tail(cs))
         IN (IF "id" \in DOMAIN node /\ node.id = o THEN 1 ELSE 0)
            + inChildren(node.children)
            + ObjectOccurrences(Tail(expression), o)

\* The nodes at all places of the tree under expression
RECURSIVE NodesOf(_)
NodesOf(expression) ==
    UNION {{expression[k]} \cup
           UNION {NodesOf(expression[k].children[c]) :
                      c \in 1..Len(expression[k].children)} :
           k \in 1..Len(expression)}

\* The expression with every object that is in the tree r as it is there
RECURSIVE Synced(_, _)
Synced(expression, r) ==
    [k \in 1..Len(expression) |->
        LET node == expression[k]
            places == {other \in NodesOf(r) :
                           /\ "id" \in DOMAIN node
                           /\ "id" \in DOMAIN other
                           /\ other.id = node.id}
        IN IF places # {} THEN CHOOSE other \in places : TRUE
           ELSE [node EXCEPT !.children =
                    [c \in 1..Len(node.children) |-> Synced(node.children[c], r)]]]

\* The objects the host holds after a call that left the tree r: an
\* object that is in the tree has the children it has there, and one that
\* is not in the tree keeps the children it had.
Refreshed(h, r) ==
    [o \in DOMAIN h |-> Synced(<<h[o]>>, r)[1]]

(***************************************************************************)
(* Size of a tree, used only to bound the model.                           *)
(***************************************************************************)
RECURSIVE CountNodes(_)
CountNodes(expression) ==
    IF expression = <<>> THEN 0
    ELSE LET node == Head(expression)
             RECURSIVE inChildren(_)
             inChildren(cs) == IF cs = <<>> THEN 0
                               ELSE CountNodes(Head(cs)) + inChildren(Tail(cs))
         IN 1 + inChildren(node.children) + CountNodes(Tail(expression))

(***************************************************************************)
(* Array.prototype.splice as used by MathExpression.                       *)
(***************************************************************************)
\* The start index splice works with: negative counts from the end, and
\* the result is clamped to [0, length].
SpliceStart(length, start) ==
    IF start < 0
    THEN (IF length + start < 0 THEN 0 ELSE length + start)
    ELSE (IF start > length THEN length ELSE start)

\* insertNode as nodes.push(node)
insertNodeAtEnd(nodes, before, node) == Append(nodes, node)

\* nodes.splice(before, 0, node)
insertNode(nodes, before, node) ==
    LET s == SpliceStart(Len(nodes), before)
    IN SubSeq(nodes, 1, s) \o <<node>> \o SubSeq(nodes, s + 1, Len(nodes))

\* nodes.splice(index, 1)
SpliceRemoveOne(nodes, index) ==
    LET s == SpliceStart(Len(nodes), index)
    IN SubSeq(nodes, 1, s) \o SubSeq(nodes, s + 2, Len(nodes))

\* removeNthNode accepting index = length: splice(length, 1) removes nothing.
removeNthNodeInclusiveUpper(nodes, index) ==
    IF index < 0 \/ index > Len(nodes)
    THEN [thrown |-> TRUE, nodes |-> nodes]
    ELSE [thrown |-> FALSE, nodes |-> SpliceRemoveOne(nodes, index)]

\* removeNthNode as nodes.pop(): a valid index removes the last node.
removeNthNodeLast(nodes, index) ==
    IF index < 0 \/ index >= Len(nodes)
    THEN [thrown |-> TRUE, nodes |-> nodes]
    ELSE [thrown |-> FALSE, nodes |-> SubSeq(nodes, 1, Len(nodes) - 1)]

\* removeNthNode checking only the upper bound: splice(-1, 1) then removes
\* the last node.
removeNthNodeNoLowerBound(nodes, index) ==
    IF index >= Len(nodes)
    THEN [thrown |-> TRUE, nodes |-> nodes]
    ELSE [thrown |-> FALSE, nodes |-> SpliceRemoveOne(nodes, index)]

\* MathExpression.removeNthNode: [thrown, nodes]
removeNthNode(nodes, index) ==
    IF index < 0 \/ index >= Len(nodes)
    THEN [thrown |-> TRUE, nodes |-> nodes]
    ELSE [thrown |-> FALSE, nodes |-> SpliceRemoveOne(nodes, index)]

(***************************************************************************)
(* CursorLocation.                                                         *)
(***************************************************************************)
Link(nodeIndex, childIndex, i) ==
    [nodeIndex |-> nodeIndex, childIndex |-> childIndex, i |-> i]

NoNode == [cls |-> "null", args |-> <<>>, children |-> <<>>]

\* One run of the loop of resolveLinkInfo.  A JavaScript array read out of
\* range gives undefined, and a property read on undefined throws a
\* TypeError.  The result is [thrown, defined, enclosingExpression,
\* enclosingNode]; defined = FALSE says enclosingExpression is undefined.
RECURSIVE resolveLoop(_, _, _, _, _, _)
resolveLoop(p, currentExpression, defined, currentNode, i, last) ==
    IF i > last
    THEN [thrown |-> FALSE, defined |-> defined,
          enclosingExpression |-> currentExpression, enclosingNode |-> currentNode]
    ELSE IF i + 1 > Len(p) \/ ~defined
    THEN [thrown |-> TRUE, defined |-> FALSE,
          enclosingExpression |-> <<>>, enclosingNode |-> NoNode]
    ELSE LET nextLink == p[i + 1]
             n == nextLink.nodeIndex
             c == nextLink.childIndex
         IN IF n < 0 \/ n >= Len(currentExpression)
            THEN [thrown |-> TRUE, defined |-> FALSE,
                  enclosingExpression |-> <<>>, enclosingNode |-> NoNode]
            ELSE LET node == currentExpression[n + 1]
                 IN IF c < 0 \/ c >= Len(node.children)
                    THEN resolveLoop(p, <<>>, FALSE, node, i + 1, last)
                    ELSE resolveLoop(p, node.children[c + 1], TRUE, node, i + 1, last)

resolveLinkInfo(r, p, link) == resolveLoop(p, r, TRUE, NoNode, 0, link.i)

atRoot(p) == Len(p) = 0

\* CursorLocation.getEnclosingExpression: [thrown, defined, enclosingExpression]
getEnclosingExpression(r, p) ==
    IF ~atRoot(p)
    THEN LET info == resolveLinkInfo(r, p, p[Len(p)])
         IN [thrown |-> info.thrown, defined |-> info.defined,
             enclosingExpression |-> info.enclosingExpression]
    ELSE [thrown |-> FALSE, defined |-> TRUE, enclosingExpression |-> r]

\* CursorLocation.moveInto
moveInto(p, nodeIndex, childIndex) == Append(p, Link(nodeIndex, childIndex, Len(p)))

\* The tree after the expression the path p leads to has been replaced by
\* newNodes: the effect, seen from the root, of a splice on the _nodes array
\* of the enclosing expression.
RECURSIVE SplicedAt(_, _, _)
SplicedAt(expression, p, newNodes) ==
    IF p = <<>> THEN newNodes
    ELSE LET n == Head(p).nodeIndex + 1
             c == Head(p).childIndex + 1
             node == expression[n]
             child == SplicedAt(node.children[c], Tail(p), newNodes)
         IN [expression EXCEPT ![n] =
                [node EXCEPT !.children = [node.children EXCEPT ![c] = child]]]

\* The tree with every place that holds the object of node showing node:
\* an object that is in the tree twice changes at both places at once.
RECURSIVE WithObject(_, _)
WithObject(expression, node) ==
    [k \in 1..Len(expression) |->
        LET other == expression[k]
        IN IF "id" \in DOMAIN other /\ other.id = node.id THEN node
           ELSE [other EXCEPT !.children =
                    [c \in 1..Len(other.children) |->
                        WithObject(other.children[c], node)]]]

\* The tree with every place of the objects the first k links of p lead
\* through showing what the place on the path shows.
RECURSIVE WithOwners(_, _, _)
WithOwners(expression, p, k) ==
    IF k = 0 THEN expression
    ELSE LET owner == resolveLinkInfo(expression, p, p[k]).enclosingNode
         IN WithOwners(IF "id" \in DOMAIN owner THEN WithObject(expression, owner)
                       ELSE expression,
                       p, k - 1)

\* The splice is done on the one _nodes array of the enclosing expression,
\* which is inside every node the path leads through: each of these that is
\* an object with an id shows the change at every place it has in the tree.
WithEnclosingNodes(expression, p, newNodes) ==
    WithOwners(SplicedAt(expression, p, newNodes), p, Len(p))

(***************************************************************************)
(* The program state as one record, so that the methods of Cursor and     *)
(* SearchMenu can be composed the way the source calls them.  err is the  *)
(* error thrown so far (NoError when none): a method that finds err set   *)
(* by a call it made stops there, as an exception propagates.             *)
(***************************************************************************)
Cur ==
    [root |-> root, path |-> path, cursorIndex |-> cursorIndex,
     focused |-> focused, blinkState |-> blinkState,
     lastBlinkInterrupt |-> lastBlinkInterrupt,
     onUpdateCallbacks |-> onUpdateCallbacks,
     onRequestFocusCallbacks |-> onRequestFocusCallbacks,
     isOpen |-> isOpen, currentElement |-> currentElement,
     popups |-> popups, clickListeners |-> clickListeners,
     registered |-> registered, held |-> held,
     err |-> NoError, ret |-> NoValue, notes |-> <<>>, focusCalls |-> <<>>]

Throw(s, message) == [s EXCEPT !.err = message]

Failed(s) == s.err # NoError

\* What an update callback sees when it is invoked.
Snapshot(s, callback) ==
    [callback |-> callback, root |-> s.root, path |-> s.path,
     cursorIndex |-> s.cursorIndex, focused |-> s.focused,
     blinkState |-> s.blinkState]

\* Cursor.notifyUpdates
notifyUpdates(s) ==
    [s EXCEPT !.notes = @ \o [k \in 1..Len(s.onUpdateCallbacks) |->
                                Snapshot(s, s.onUpdateCallbacks[k])]]

\* Cursor.requestFocus
requestFocus(s) ==
    [s EXCEPT !.focusCalls = @ \o s.onRequestFocusCallbacks]

\* CursorLocation.pop: [thrown, link, path]
pop(p) ==
    IF atRoot(p)
    THEN [thrown |-> TRUE, link |-> Link(0, 0, 0), path |-> p]
    ELSE [thrown |-> FALSE, link |-> p[Len(p)], path |-> SubSeq(p, 1, Len(p) - 1)]

\* CursorLocation.getTopLevelLink: [thrown, link]
getTopLevelLink(p) ==
    IF ~atRoot(p)
    THEN [thrown |-> FALSE, link |-> p[Len(p)]]
    ELSE [thrown |-> TRUE, link |-> Link(0, 0, 0)]

\* enterNode notifying once the link is pushed, before the position is set
enterNodeNotifiesBeforePosition(s, nodeIndex, childIndex, direction) ==
    LET s1 == notifyUpdates([s EXCEPT !.path = moveInto(@, nodeIndex, childIndex)])
    IN IF direction = "right"
       THEN [s1 EXCEPT !.cursorIndex = 0, !.ret = NoValue]
       ELSE LET e == getEnclosingExpression(s1.root, s1.path)
            IN IF e.thrown \/ ~e.defined
               THEN Throw(s1, TypeError)
               ELSE [s1 EXCEPT !.cursorIndex = Len(e.enclosingExpression),
                               !.ret = NoValue]

\* enterNode with the two directions exchanged
enterNodeSidesSwapped(s, nodeIndex, childIndex, direction) ==
    LET s1 == [s EXCEPT !.path = moveInto(@, nodeIndex, childIndex)]
    IN IF direction = "left"
       THEN [notifyUpdates([s1 EXCEPT !.cursorIndex = 0]) EXCEPT !.ret = NoValue]
       ELSE LET e == getEnclosingExpression(s1.root, s1.path)
            IN IF e.thrown \/ ~e.defined
               THEN Throw(s1, TypeError)
               ELSE [notifyUpdates([s1 EXCEPT !.cursorIndex = Len(e.enclosingExpression)])
                        EXCEPT !.ret = NoValue]

\* Cursor.enterNode
enterNode(s, nodeIndex, childIndex, direction) ==
    LET s1 == [s EXCEPT !.path = moveInto(@, nodeIndex, childIndex)]
    IN IF direction = "right"
       THEN [notifyUpdates([s1 EXCEPT !.cursorIndex = 0]) EXCEPT !.ret = NoValue]
       ELSE LET e == getEnclosingExpression(s1.root, s1.path)
            IN IF e.thrown \/ ~e.defined
               THEN Throw(s1, TypeError)
               ELSE [notifyUpdates([s1 EXCEPT !.cursorIndex = Len(e.enclosingExpression)])
                        EXCEPT !.ret = NoValue]

\* leaveNode landing before the node for both directions
leaveNodeAlwaysBefore(s, direction) ==
    LET popped == pop(s.path)
        link == popped.link
    IN IF popped.thrown
       THEN Throw(s, ErrPopEmpty)
       ELSE [notifyUpdates([s EXCEPT !.path = popped.path,
                                     !.cursorIndex = link.nodeIndex])
                EXCEPT !.ret = link]

\* Cursor.leaveNode
leaveNode(s, direction) ==
    LET popped == pop(s.path)
        link == popped.link
    IN IF popped.thrown
       THEN Throw(s, ErrPopEmpty)
       ELSE LET s1 == [s EXCEPT !.path = popped.path,
                                !.cursorIndex = IF direction = "left"
                                                THEN link.nodeIndex
                                                ELSE link.nodeIndex + 1]
            IN [notifyUpdates(s1) EXCEPT !.ret = link]

\* The insertion shared by insertCharacterAtCursor and insertNodeAtCursor:
\* getEnclosingExpression().insertNode(_cursorIndex, node); _cursorIndex += 1
InsertAtCursor(s, node) ==
    LET e == getEnclosingExpression(s.root, s.path)
    IN IF e.thrown \/ ~e.defined
       THEN Throw(s, TypeError)
       ELSE [s EXCEPT !.root = WithEnclosingNodes(s.root, s.path,
                                    insertNode(e.enclosingExpression, s.cursorIndex, node)),
                      !.cursorIndex = @ + 1]

\* Cursor.insertCharacterAtCursor
insertCharacterAtCursor(s, character) ==
    LET s1 == InsertAtCursor(s, MathCharacter(character))
    IN IF Failed(s1) THEN s1
       ELSE [notifyUpdates(s1) EXCEPT !.ret = NoValue]

\* Cursor.insertNodeAtCursor
insertNodeAtCursor(s, node) ==
    LET s1 == InsertAtCursor(s, node)
    IN IF Failed(s1) THEN s1
       ELSE [notifyUpdates(s1) EXCEPT !.ret = s1.cursorIndex - 1]

\* deleteCharacterAtCursor removing the node after the cursor
deleteCharacterAfterCursor(s) ==
    LET e == getEnclosingExpression(s.root, s.path)
    IN IF e.thrown \/ ~e.defined
       THEN Throw(s, TypeError)
       ELSE LET removed == removeNthNode(e.enclosingExpression, s.cursorIndex)
            IN IF removed.thrown
               THEN Throw(s, ErrRemoveOutOfBounds)
               ELSE [notifyUpdates(
                        [s EXCEPT !.root = WithEnclosingNodes(s.root, s.path, removed.nodes),
                                  !.cursorIndex = @ - 1])
                        EXCEPT !.ret = NoValue]

\* Cursor.deleteCharacterAtCursor
deleteCharacterAtCursor(s) ==
    LET e == getEnclosingExpression(s.root, s.path)
    IN IF e.thrown \/ ~e.defined
       THEN Throw(s, TypeError)
       ELSE LET removed == removeNthNode(e.enclosingExpression, s.cursorIndex - 1)
            IN IF removed.thrown
               THEN Throw(s, ErrRemoveOutOfBounds)
               ELSE [notifyUpdates(
                        [s EXCEPT !.root = WithEnclosingNodes(s.root, s.path, removed.nodes),
                                  !.cursorIndex = @ - 1])
                        EXCEPT !.ret = NoValue]

\* removeEnclosingNode popping the path without removing the node
removeEnclosingNodeOnlyPops(s) ==
    IF atRoot(s.path)
    THEN Throw(s, ErrNoEnclosingNode)
    ELSE LET popped == pop(s.path)
             link == popped.link
         IN [notifyUpdates([s EXCEPT !.path = popped.path,
                                     !.cursorIndex = link.nodeIndex])
                EXCEPT !.ret = NoValue]

\* removeEnclosingNode reading the top link without popping it
removeEnclosingNodeKeepsPath(s) ==
    IF atRoot(s.path)
    THEN Throw(s, ErrNoEnclosingNode)
    ELSE LET link == getTopLevelLink(s.path).link
             parentPath == pop(s.path).path
             e == getEnclosingExpression(s.root, parentPath)
         IN IF e.thrown \/ ~e.defined
            THEN Throw(s, TypeError)
            ELSE LET removed == removeNthNode(e.enclosingExpression, link.nodeIndex)
                 IN IF removed.thrown
                    THEN Throw(s, ErrRemoveOutOfBounds)
                    ELSE [notifyUpdates(
                            [s EXCEPT !.root = WithEnclosingNodes(s.root, parentPath,
                                                                  removed.nodes),
                                      !.cursorIndex = link.nodeIndex])
                            EXCEPT !.ret = NoValue]

\* Cursor.removeEnclosingNode
removeEnclosingNode(s) ==
    IF atRoot(s.path)
    THEN Throw(s, ErrNoEnclosingNode)
    ELSE LET popped == pop(s.path)
             link == popped.link
             s1 == [s EXCEPT !.path = popped.path]
             e == getEnclosingExpression(s1.root, s1.path)
         IN IF e.thrown \/ ~e.defined
            THEN Throw(s1, TypeError)
            ELSE LET removed == removeNthNode(e.enclosingExpression, link.nodeIndex)
                 IN IF removed.thrown
                    THEN Throw(s1, ErrRemoveOutOfBounds)
                    ELSE [notifyUpdates(
                            [s1 EXCEPT !.root = WithEnclosingNodes(s1.root, s1.path,
                                                                   removed.nodes),
                                       !.cursorIndex = link.nodeIndex])
                            EXCEPT !.ret = NoValue]

\* moveRight leaving the enclosing node on its leading side
moveRightLeavesBefore(s) ==
    LET e == getEnclosingExpression(s.root, s.path)
        nodes == e.enclosingExpression
    IN IF e.thrown \/ ~e.defined
       THEN Throw(s, TypeError)
       ELSE IF s.cursorIndex = Len(nodes)
       THEN LET s1 == IF ~atRoot(s.path) THEN leaveNode(s, "left") ELSE s
            IN IF Failed(s1) THEN s1
               ELSE [notifyUpdates(s1) EXCEPT !.ret = NoValue]
       ELSE IF s.cursorIndex < 0 \/ s.cursorIndex > Len(nodes)
       THEN Throw(s, TypeError)
       ELSE LET nextNode == nodes[s.cursorIndex + 1]
                s1 == IF Len(nextNode.children) # 0
                      THEN enterNode(s, s.cursorIndex, 0, "right")
                      ELSE [s EXCEPT !.cursorIndex = @ + 1]
            IN IF Failed(s1) THEN s1
               ELSE [notifyUpdates(s1) EXCEPT !.ret = NoValue]

\* Cursor.moveRight
moveRight(s) ==
    LET e == getEnclosingExpression(s.root, s.path)
        nodes == e.enclosingExpression
    IN IF e.thrown \/ ~e.defined
       THEN Throw(s, TypeError)
       ELSE IF s.cursorIndex = Len(nodes)
       THEN LET s1 == IF ~atRoot(s.path) THEN leaveNode(s, "right") ELSE s
            IN IF Failed(s1) THEN s1
               ELSE [notifyUpdates(s1) EXCEPT !.ret = NoValue]
       ELSE IF s.cursorIndex < 0 \/ s.cursorIndex > Len(nodes)
       THEN Throw(s, TypeError)
       ELSE LET nextNode == nodes[s.cursorIndex + 1]
                s1 == IF Len(nextNode.children) # 0
                      THEN enterNode(s, s.cursorIndex, 0, "right")
                      ELSE [s EXCEPT !.cursorIndex = @ + 1]
            IN IF Failed(s1) THEN s1
               ELSE [notifyUpdates(s1) EXCEPT !.ret = NoValue]

\* moveLeft entering the last child of the node before the cursor
moveLeftIntoLastChild(s) ==
    LET e == getEnclosingExpression(s.root, s.path)
        nodes == e.enclosingExpression
    IN IF e.thrown
       THEN Throw(s, TypeError)
       ELSE IF s.cursorIndex = 0
       THEN LET s1 == IF ~atRoot(s.path) THEN leaveNode(s, "left") ELSE s
            IN IF Failed(s1) THEN s1
               ELSE [notifyUpdates(s1) EXCEPT !.ret = NoValue]
       ELSE IF ~e.defined
       THEN Throw(s, TypeError)
       ELSE IF s.cursorIndex - 1 < 0 \/ s.cursorIndex - 1 >= Len(nodes)
       THEN Throw(s, TypeError)
       ELSE LET previousNode == nodes[s.cursorIndex]
                s1 == IF Len(previousNode.children) # 0
                      THEN enterNode(s, s.cursorIndex - 1,
                                     Len(previousNode.children) - 1, "left")
                      ELSE [s EXCEPT !.cursorIndex = @ - 1]
            IN IF Failed(s1) THEN s1
               ELSE [notifyUpdates(s1) EXCEPT !.ret = NoValue]

\* Cursor.moveLeft
moveLeft(s) ==
    LET e == getEnclosingExpression(s.root, s.path)
        nodes == e.enclosingExpression
    IN IF e.thrown
       THEN Throw(s, TypeError)
       ELSE IF s.cursorIndex = 0
       THEN LET s1 == IF ~atRoot(s.path) THEN leaveNode(s, "left") ELSE s
            IN IF Failed(s1) THEN s1
               ELSE [notifyUpdates(s1) EXCEPT !.ret = NoValue]
       ELSE IF ~e.defined
       THEN Throw(s, TypeError)
       ELSE IF s.cursorIndex - 1 < 0 \/ s.cursorIndex - 1 >= Len(nodes)
       THEN Throw(s, TypeError)
       ELSE LET previousNode == nodes[s.cursorIndex]
                s1 == IF Len(previousNode.children) # 0
                      THEN enterNode(s, s.cursorIndex - 1, 0, "left")
                      ELSE [s EXCEPT !.cursorIndex = @ - 1]
            IN IF Failed(s1) THEN s1
               ELSE [notifyUpdates(s1) EXCEPT !.ret = NoValue]

\* moveDown landing at the start of the sibling expression
moveDownToStart(s) ==
    IF atRoot(s.path) THEN [s EXCEPT !.ret = NoValue]
    ELSE LET link == getTopLevelLink(s.path).link
             info == resolveLinkInfo(s.root, s.path, link)
             currentChildIndex == link.childIndex
         IN IF info.thrown
            THEN Throw(s, TypeError)
            ELSE IF currentChildIndex < Len(info.enclosingNode.children) - 1
            THEN LET s1 == leaveNode(s, "left")
                     s2 == IF Failed(s1) THEN s1
                           ELSE enterNode(s1, link.nodeIndex, currentChildIndex + 1, "right")
                 IN IF Failed(s2) THEN s2 ELSE [s2 EXCEPT !.ret = NoValue]
            ELSE [s EXCEPT !.ret = NoValue]

\* moveDown re-entering the child it just left
moveDownSameChild(s) ==
    IF atRoot(s.path) THEN [s EXCEPT !.ret = NoValue]
    ELSE LET link == getTopLevelLink(s.path).link
             info == resolveLinkInfo(s.root, s.path, link)
             currentChildIndex == link.childIndex
         IN IF info.thrown
            THEN Throw(s, TypeError)
            ELSE IF currentChildIndex < Len(info.enclosingNode.children) - 1
            THEN LET s1 == leaveNode(s, "left")
                     s2 == IF Failed(s1) THEN s1
                           ELSE enterNode(s1, link.nodeIndex, currentChildIndex, "left")
                 IN IF Failed(s2) THEN s2 ELSE [s2 EXCEPT !.ret = NoValue]
            ELSE [s EXCEPT !.ret = NoValue]

\* Cursor.moveDown
moveDown(s) ==
    IF atRoot(s.path) THEN [s EXCEPT !.ret = NoValue]
    ELSE LET link == getTopLevelLink(s.path).link
             info == resolveLinkInfo(s.root, s.path, link)
             currentChildIndex == link.childIndex
         IN IF info.thrown
            THEN Throw(s, TypeError)
            ELSE IF currentChildIndex < Len(info.enclosingNode.children) - 1
            THEN LET s1 == leaveNode(s, "left")
                     s2 == IF Failed(s1) THEN s1
                           ELSE enterNode(s1, link.nodeIndex, currentChildIndex + 1, "left")
                 IN IF Failed(s2) THEN s2 ELSE [s2 EXCEPT !.ret = NoValue]
            ELSE [s EXCEPT !.ret = NoValue]

\* moveUp landing at the end of the sibling expression
moveUpToEnd(s) ==
    IF atRoot(s.path) THEN [s EXCEPT !.ret = NoValue]
    ELSE LET link == getTopLevelLink(s.path).link
             info == resolveLinkInfo(s.root, s.path, link)
             currentChildIndex == link.childIndex
         IN IF info.thrown
            THEN Throw(s, TypeError)
            ELSE IF currentChildIndex > 0
            THEN LET s1 == leaveNode(s, "left")
                     s2 == IF Failed(s1) THEN s1
                           ELSE enterNode(s1, link.nodeIndex, currentChildIndex - 1, "left")
                 IN IF Failed(s2) THEN s2 ELSE [s2 EXCEPT !.ret = NoValue]
            ELSE [s EXCEPT !.ret = NoValue]

\* Cursor.moveUp
moveUp(s) ==
    IF atRoot(s.path) THEN [s EXCEPT !.ret = NoValue]
    ELSE LET link == getTopLevelLink(s.path).link
             info == resolveLinkInfo(s.root, s.path, link)
             currentChildIndex == link.childIndex
         IN IF info.thrown
            THEN Throw(s, TypeError)
            ELSE IF currentChildIndex > 0
            THEN LET s1 == leaveNode(s, "left")
                     s2 == IF Failed(s1) THEN s1
                           ELSE enterNode(s1, link.nodeIndex, currentChildIndex - 1, "right")
                 IN IF Failed(s2) THEN s2 ELSE [s2 EXCEPT !.ret = NoValue]
            ELSE [s EXCEPT !.ret = NoValue]

(***************************************************************************)
(* SearchMenu (open, close) and the items populate() registers.            *)
(***************************************************************************)
\* SearchMenu.open: a new popup is attached to document.body and becomes
\* _currentElement; bind() makes a new function object at every call, so
\* addEventListener always registers one more listener.
open(s) ==
    [s EXCEPT !.popups = @ + 1,
              !.currentElement = "popup",
              !.clickListeners = @ + 1,
              !.isOpen = TRUE]

\* close without the test of _isOpen
closeWithoutOpenCheck(s) ==
    IF s.currentElement = "null" THEN s
    ELSE [requestFocus([s EXCEPT !.popups = @ - 1]) EXCEPT !.isOpen = FALSE]

\* SearchMenu.close: removeEventListener is given a function object that
\* was never registered, so it removes nothing.
close(s) ==
    IF ~s.isOpen THEN s
    ELSE IF s.currentElement = "null" THEN s
    ELSE [requestFocus([s EXCEPT !.popups = @ - 1]) EXCEPT !.isOpen = FALSE]

\* SearchMenu.listenForClickOutside; outside says that the event's
\* composedPath() does not include the current element.
listenForClickOutside(s, outside) ==
    IF s.currentElement = "null" THEN s
    ELSE IF outside THEN close(s)
    ELSE s

\* A click event of the document: every listener that open() has added
\* and close() has not removed runs, in the order of registration.
RECURSIVE dispatchClick(_, _, _)
dispatchClick(s, listeners, outside) ==
    IF listeners = 0 THEN s
    ELSE dispatchClick(listenForClickOutside(s, outside), listeners - 1, outside)

\* The names of a MenuItem and a query are strings whose characters matter:
\* each is kept as the array of its UTF-16 code units, which is what length,
\* startsWith, includes, trim, toLowerCase and toUpperCase work on.
\* FromSpace holds the characters of the code units 32..95 in their order
\* and FromSmallA those of 97..126; CodeUnits gives the code units of a
\* string written with them, StringOf the string of such code units, and
\* Named an item written with such names.
FromSpace == " !\"#$%&'()*+,-./0123456789:;<=>?@ABCDEFGHIJKLMNOPQRSTUVWXYZ[\\]^_"
FromSmallA == "abcdefghijklmnopqrstuvwxyz{|}~"

CodeUnit(character) ==
    LET at(string) == {i \in 1..Len(string) : SubSeq(string, i, i) = character}
    IN IF at(FromSpace) # {} THEN 31 + CHOOSE i \in at(FromSpace) : TRUE
       ELSE 96 + CHOOSE i \in at(FromSmallA) : TRUE

CodeUnits(string) ==
    [k \in 1..Len(string) |-> CodeUnit(SubSeq(string, k, k))] \o <<>>

RECURSIVE StringOf(_)
StringOf(units) ==
    IF units = <<>> THEN ""
    ELSE (IF units[1] < 96 THEN SubSeq(FromSpace, units[1] - 31, units[1] - 31)
          ELSE SubSeq(FromSmallA, units[1] - 96, units[1] - 96))
         \o StringOf(Tail(units))

Named(item) ==
    [item EXCEPT !.displayName = CodeUnits(@),
                 !.searchableAliases = [k \in 1..Len(@) |-> CodeUnits(@[k])] \o <<>>]

\* A MenuItem is kept as its displayName, its searchableAliases (none when
\* the property is absent) and what its onSelect inserts: a character, or a
\* node that it then enters.  Three items of the registry: one that inserts
\* a symbol and the ones that insert a node with one and with two children.
SymbolItem(displayName, searchableAliases, character) ==
    [displayName |-> displayName, searchableAliases |-> searchableAliases,
     inserts |-> "character", character |-> character]

NodeItem(displayName, searchableAliases, node) ==
    [displayName |-> displayName, searchableAliases |-> searchableAliases,
     inserts |-> "node", node |-> node]

AlphaItem == Named(SymbolItem("Alpha", <<>>, "\\alpha"))
FractionItem == Named(NodeItem("Fraction", <<>>, Fraction))
LimitItem == Named(NodeItem("Limit", <<>>, Limit))

\* The registry is kept as the calls that filled it, in order: a call of
\* addSearchMenuItem as the item it added, a call of populate() as
\* Populated, which stands for the items populate() adds.
Populated == [populate |-> TRUE]

MenuItems == {AlphaItem, LimitItem}

\* onSelect entering the last child of the node it inserted
onSelectEnteringLastChild(s, item) ==
    IF item.inserts = "character"
    THEN insertCharacterAtCursor(s, item.character)
    ELSE LET s1 == insertNodeAtCursor(s, item.node)
         IN IF Failed(s1) THEN s1
            ELSE enterNode(s1, s1.ret, Len(item.node.children) - 1, "right")

\* MenuItem.onSelect as populate() defines it
onSelect(s, item) ==
    IF item.inserts = "character"
    THEN insertCharacterAtCursor(s, item.character)
    ELSE LET s1 == insertNodeAtCursor(s, item.node)
         IN IF Failed(s1) THEN s1 ELSE enterNode(s1, s1.ret, 0, "right")

\* The click handler of a result element and the Enter branch of the
\* keydown handler of the search field: onSelect(); close()
selectResult(s, item) ==
    LET s1 == onSelect(s, item)
    IN IF Failed(s1) THEN s1 ELSE [close(s1) EXCEPT !.ret = NoValue]

\* The ways a result is selected: Enter in the search field of a popup, a
\* click on a result element of the current popup, which is in the document
\* while the menu is open, and a click on one of another popup, which
\* open() left in the document when it replaced the current element.
Selections(s) ==
    {"Enter"} \cup (IF s.isOpen THEN {"click"} ELSE {})
              \cup (IF s.popups > (IF s.isOpen THEN 1 ELSE 0)
                    THEN {"click in another popup"} ELSE {})

\* What a selection leaves, handled being what its handler left: a click
\* event goes on from the result element to the document, whose click
\* listeners run whether the handler threw or not, and they find the
\* current element in composedPath() unless the click was in another popup.
afterSelection(handled, way) ==
    IF way = "Enter" THEN handled
    ELSE dispatchClick(handled, handled.clickListeners, way = "click in another popup")

(***************************************************************************)
(* Cursor.handleKeydown.                                                   *)
(***************************************************************************)
ALPHANUM == "abcdefghijklmnopqrstuvwxyzABCDEFGHIJKLMNOPQRSTUVWXYZ0123456789"
PUNCTUATION == "!@#&-=+':<>,.?|"

\* String.prototype.includes: searchString is one of the substrings of
\* string (the empty string is a substring of every string).
Substrings(string) ==
    {SubSeq(string, i, j) : i \in 1..(Len(string) + 1), j \in 0..Len(string)}

Includes(string, searchString) == searchString \in Substrings(string)

\* ALPHANUM.includes(key) and "!@#&-=+':<>,.?|".includes(key)
AlphanumSubstrings == Substrings(ALPHANUM)
PunctuationSubstrings == Substrings(PUNCTUATION)

\* The shorthand entering at the position the cursor has after the
\* insertion, not at the index insertNodeAtCursor returned
InsertAndEnterAtCursorIndex(s, node) ==
    LET s1 == insertNodeAtCursor(s, node)
    IN IF Failed(s1) THEN s1 ELSE enterNode(s1, s1.cursorIndex, 0, "right")

\* insertNodeAtCursor(node); enterNode(index, 0, "right")
InsertAndEnter(s, node) ==
    LET s1 == insertNodeAtCursor(s, node)
    IN IF Failed(s1) THEN s1 ELSE enterNode(s1, s1.ret, 0, "right")

\* handleKeydown whose Backspace always deletes the character before the
\* cursor, also at position 0
handleKeydownBackspaceOnlyDeletes(s, key, t, cursorElement) ==
    LET s1 == notifyUpdates([s EXCEPT !.lastBlinkInterrupt = t, !.blinkState = TRUE])
        s2 == IF key \in AlphanumSubstrings THEN insertCharacterAtCursor(s1, key)
              ELSE IF key \in PunctuationSubstrings THEN insertCharacterAtCursor(s1, key)
              ELSE IF key = "*" THEN insertCharacterAtCursor(s1, "\\cdot")
              ELSE IF key = "%" THEN insertCharacterAtCursor(s1, "\\%")
              ELSE IF key = "$" THEN insertCharacterAtCursor(s1, "\\$")
              ELSE IF key = " " THEN insertCharacterAtCursor(s1, "~")
              ELSE IF key = "Backspace" THEN deleteCharacterAtCursor(s1)
              ELSE IF key = "\\"
                   THEN (IF ~cursorElement
                         THEN Throw(s1, ErrCursorNotDisplayed)
                         ELSE open(s1))
              ELSE IF key = "(" THEN InsertAndEnter(s1, Bracket("(", ")"))
              ELSE IF key = "{" THEN InsertAndEnter(s1, Bracket("\\{", "\\}"))
              ELSE IF key = "[" THEN InsertAndEnter(s1, Bracket("[", "]"))
              ELSE IF key = "/" THEN InsertAndEnter(s1, Fraction)
              ELSE IF key = "_" THEN InsertAndEnter(s1, Subscript)
              ELSE IF key = "^" THEN InsertAndEnter(s1, Superscript)
              ELSE IF key = "ArrowRight" THEN moveRight(s1)
              ELSE IF key = "ArrowLeft" THEN moveLeft(s1)
              ELSE IF key = "ArrowDown" THEN moveDown(s1)
              ELSE IF key = "ArrowUp" THEN moveUp(s1)
              ELSE s1
    IN IF Failed(s2) THEN s2 ELSE [s2 EXCEPT !.ret = NoValue]

\* handleKeydown notifying the observers before it resets the blink phase
handleKeydownNotifiesFirst(s, key, t, cursorElement) ==
    LET s1 == [notifyUpdates(s) EXCEPT !.lastBlinkInterrupt = t, !.blinkState = TRUE]
        s2 == IF key \in AlphanumSubstrings THEN insertCharacterAtCursor(s1, key)
              ELSE IF key \in PunctuationSubstrings THEN insertCharacterAtCursor(s1, key)
              ELSE IF key = "*" THEN insertCharacterAtCursor(s1, "\\cdot")
              ELSE IF key = "%" THEN insertCharacterAtCursor(s1, "\\%")
              ELSE IF key = "$" THEN insertCharacterAtCursor(s1, "\\$")
              ELSE IF key = " " THEN insertCharacterAtCursor(s1, "~")
              ELSE IF key = "Backspace"
                   THEN (IF s1.cursorIndex = 0
                         THEN removeEnclosingNode(s1)
                         ELSE deleteCharacterAtCursor(s1))
              ELSE IF key = "\\"
                   THEN (IF ~cursorElement
                         THEN Throw(s1, ErrCursorNotDisplayed)
                         ELSE open(s1))
              ELSE IF key = "(" THEN InsertAndEnter(s1, Bracket("(", ")"))
              ELSE IF key = "{" THEN InsertAndEnter(s1, Bracket("\\{", "\\}"))
              ELSE IF key = "[" THEN InsertAndEnter(s1, Bracket("[", "]"))
              ELSE IF key = "/" THEN InsertAndEnter(s1, Fraction)
              ELSE IF key = "_" THEN InsertAndEnter(s1, Subscript)
              ELSE IF key = "^" THEN InsertAndEnter(s1, Superscript)
              ELSE IF key = "ArrowRight" THEN moveRight(s1)
              ELSE IF key = "ArrowLeft" THEN moveLeft(s1)
              ELSE IF key = "ArrowDown" THEN moveDown(s1)
              ELSE IF key = "ArrowUp" THEN moveUp(s1)
              ELSE s1
    IN IF Failed(s2) THEN s2 ELSE [s2 EXCEPT !.ret = NoValue]

\* t is Date.now(); cursorElement says whether document.getElementById
\* finds the cursor's element.
handleKeydown(s, key, t, cursorElement) ==
    LET s1 == notifyUpdates([s EXCEPT !.lastBlinkInterrupt = t, !.blinkState = TRUE])
        s2 == IF key \in AlphanumSubstrings THEN insertCharacterAtCursor(s1, key)
              ELSE IF key \in PunctuationSubstrings THEN insertCharacterAtCursor(s1, key)
              ELSE IF key = "*" THEN insertCharacterAtCursor(s1, "\\cdot")
              ELSE IF key = "%" THEN insertCharacterAtCursor(s1, "\\%")
              ELSE IF key = "$" THEN insertCharacterAtCursor(s1, "\\$")
              ELSE IF key = " " THEN insertCharacterAtCursor(s1, "~")
              ELSE IF key = "Backspace"
                   THEN (IF s1.cursorIndex = 0
                         THEN removeEnclosingNode(s1)
                         ELSE deleteCharacterAtCursor(s1))
              ELSE IF key = "\\"
                   THEN (IF ~cursorElement
                         THEN Throw(s1, ErrCursorNotDisplayed)
                         ELSE open(s1))
              ELSE IF key = "(" THEN InsertAndEnter(s1, Bracket("(", ")"))
              ELSE IF key = "{" THEN InsertAndEnter(s1, Bracket("\\{", "\\}"))
              ELSE IF key = "[" THEN InsertAndEnter(s1, Bracket("[", "]"))
              ELSE IF key = "/" THEN InsertAndEnter(s1, Fraction)
              ELSE IF key = "_" THEN InsertAndEnter(s1, Subscript)
              ELSE IF key = "^" THEN InsertAndEnter(s1, Superscript)
              ELSE IF key = "ArrowRight" THEN moveRight(s1)
              ELSE IF key = "ArrowLeft" THEN moveLeft(s1)
              ELSE IF key = "ArrowDown" THEN moveDown(s1)
              ELSE IF key = "ArrowUp" THEN moveUp(s1)
              ELSE s1
    IN IF Failed(s2) THEN s2 ELSE [s2 EXCEPT !.ret = NoValue]

(***************************************************************************)
(* Initial state: the fields as the constructors leave them, on an empty  *)
(* root expression.                                                        *)
(***************************************************************************)
Init ==
    /\ root = <<>>
    /\ path = <<>>
    /\ cursorIndex = 0
    /\ focused = FALSE
    /\ blinkState = TRUE
    /\ lastBlinkInterrupt = 0
    /\ now = StartTime
    /\ nextTick = StartTime + BlinkInterval
    /\ lastFocus = <<>>
    /\ onUpdateCallbacks = <<>>
    /\ onRequestFocusCallbacks = <<>>
    /\ isOpen = FALSE
    /\ currentElement = "null"
    /\ popups = 0
    /\ clickListeners = 0
    /\ registered = <<Populated>>
    /\ held = <<>>
    /\ op = [name |-> "constructor", args |-> <<>>]
    /\ pre = [root |-> <<>>, path |-> <<>>, cursorIndex |-> 0]
    /\ err = NoError
    /\ ret = NoValue
    /\ notes = <<>>
    /\ focusCalls = <<>>

\* What one call, timer callback or wait leaves, but for the clock and the
\* timer: s is the state it leaves, also when it threw.
Effects(name, args, s) ==
    /\ root' = s.root
    /\ path' = s.path
    /\ cursorIndex' = s.cursorIndex
    /\ focused' = s.focused
    /\ blinkState' = s.blinkState
    /\ lastBlinkInterrupt' = s.lastBlinkInterrupt
    /\ onUpdateCallbacks' = s.onUpdateCallbacks
    /\ onRequestFocusCallbacks' = s.onRequestFocusCallbacks
    /\ isOpen' = s.isOpen
    /\ currentElement' = s.currentElement
    /\ popups' = s.popups
    /\ clickListeners' = s.clickListeners
    /\ registered' = s.registered
    /\ held' = Refreshed(s.held, s.root)
    /\ op' = [name |-> name, args |-> args]
    /\ pre' = [root |-> root, path |-> path, cursorIndex |-> cursorIndex]
    /\ err' = s.err
    /\ ret' = IF Failed(s) THEN NoValue ELSE s.ret
    /\ notes' = s.notes
    /\ focusCalls' = s.focusCalls
    /\ lastFocus' = IF name = "focus" THEN <<now>>
                    ELSE IF name = "blur" THEN <<>>
                    ELSE lastFocus

\* The step of one call, which takes no time.
Call(name, args, s) ==
    /\ Effects(name, args, s)
    /\ UNCHANGED <<now, nextTick>>

(***************************************************************************)
(* Inputs.                                                                 *)
(***************************************************************************)
Characters == {"x", "y"}
NewNodes == {MathCharacter("x"), Bracket("(", ")"), Fraction}
Directions == {"left", "right"}
Keys == {"a", "Backspace", "\\", "(", "/",
         "ArrowRight", "ArrowLeft", "ArrowDown", "ArrowUp"}

\* The keys that insert a node.
InsertingKeys == {"a", "(", "/"}

\* The (nodeIndex, childIndex) pairs that address a child expression of a
\* node of the enclosing expression.
ValidEntries ==
    LET e == getEnclosingExpression(root, path)
    IN IF e.thrown \/ ~e.defined THEN {}
       ELSE {nc \in (0..(Len(e.enclosingExpression) - 1)) \X (0..1) :
                nc[2] < Len(e.enclosingExpression[nc[1] + 1].children)}

(***************************************************************************)
(* The operations of Cursor called directly.                               *)
(***************************************************************************)
EnterNode ==
    \E nc \in ValidEntries, direction \in Directions :
        Call("enterNode", <<nc[1], nc[2], direction>>,
             enterNode(Cur, nc[1], nc[2], direction))

LeaveNode ==
    \E direction \in Directions :
        Call("leaveNode", <<direction>>, leaveNode(Cur, direction))

MoveRight == Call("moveRight", <<>>, moveRight(Cur))

MoveLeft == Call("moveLeft", <<>>, moveLeft(Cur))

MoveDown == Call("moveDown", <<>>, moveDown(Cur))

MoveUp == Call("moveUp", <<>>, moveUp(Cur))

InsertCharacterAtCursor ==
    /\ CountNodes(root) < MaxNodes
    /\ \E character \in Characters :
        Call("insertCharacterAtCursor", <<character>>,
             insertCharacterAtCursor(Cur, character))

InsertNodeAtCursor ==
    /\ CountNodes(root) < MaxNodes
    /\ \E node \in NewNodes :
        Call("insertNodeAtCursor", <<node>>, insertNodeAtCursor(Cur, node))

DeleteCharacterAtCursor ==
    Call("deleteCharacterAtCursor", <<>>, deleteCharacterAtCursor(Cur))

RemoveEnclosingNode ==
    Call("removeEnclosingNode", <<>>, removeEnclosingNode(Cur))

Next ==
    \/ EnterNode
    \/ LeaveNode
    \/ MoveRight
    \/ MoveLeft
    \/ MoveDown
    \/ MoveUp
    \/ InsertCharacterAtCursor
    \/ InsertNodeAtCursor
    \/ DeleteCharacterAtCursor
    \/ RemoveEnclosingNode

Spec == Init /\ [][Next]_vars

(***************************************************************************)
(* The editor driven by its user: key events and the search menu.          *)
(***************************************************************************)
HandleKeydown ==
    \E key \in Keys :
      \E cursorElement \in (IF key = "\\" THEN BOOLEAN ELSE {TRUE}) :
        /\ key \in InsertingKeys => CountNodes(root) < MaxNodes
        /\ key = "\\" => clickListeners < MaxListeners
        /\ Call("handleKeydown", <<key>>, handleKeydown(Cur, key, now, cursorElement))

\* A click on a result element of a popup, or Enter in its search field
\* with that item as the first result.
SelectResult ==
    /\ popups > 0
    /\ CountNodes(root) < MaxNodes
    /\ \E item \in MenuItems :
        \E handled \in {selectResult(Cur, item)} :
            \E after \in {afterSelection(handled, way) : way \in Selections(Cur)} :
                Call("selectResult", <<item.displayName>>, after)

\* Escape in the search field, or a click outside the current popup
\* (listenForClickOutside).
CloseMenu ==
    /\ popups > 0
    /\ Call("close", <<>>, close(Cur))

NextUI ==
    \/ HandleKeydown
    \/ SelectResult
    \/ CloseMenu

SpecUI == Init /\ [][NextUI]_vars

(***************************************************************************)
(* Vocabulary of the properties: the tree and the cursor as the           *)
(* specification speaks of them.                                           *)
(***************************************************************************)
Front(seq) == SubSeq(seq, 1, Len(seq) - 1)

Last(seq) == seq[Len(seq)]

\* Every link of p addresses an existing node of the expression the shorter
\* prefix leads to, and an existing child of that node.
RECURSIVE ValidPath(_, _)
ValidPath(expression, p) ==
    \/ p = <<>>
    \/ /\ Head(p).nodeIndex \in 0..(Len(expression) - 1)
       /\ Head(p).childIndex \in
              0..(Len(expression[Head(p).nodeIndex + 1].children) - 1)
       /\ ValidPath(expression[Head(p).nodeIndex + 1].children[Head(p).childIndex + 1],
                    Tail(p))

\* The expression a valid path leads to.
RECURSIVE ExprAt(_, _)
ExprAt(expression, p) ==
    IF p = <<>> THEN expression
    ELSE ExprAt(expression[Head(p).nodeIndex + 1].children[Head(p).childIndex + 1],
                Tail(p))

\* The node the last link of a valid, non-empty path addresses.
EnclosingNodeAt(expression, p) == ExprAt(expression, Front(p))[Last(p).nodeIndex + 1]

\* Two trees differ at most in the node sequence of the expression p leads to.
RECURSIVE SameOutside(_, _, _)
SameOutside(e1, e2, p) ==
    \/ p = <<>>
    \/ LET n == Head(p).nodeIndex + 1
           c == Head(p).childIndex + 1
       IN /\ Len(e1) = Len(e2)
          /\ \A k \in 1..Len(e1) : k # n => e1[k] = e2[k]
          /\ e1[n].cls = e2[n].cls
          /\ e1[n].args = e2[n].args
          /\ Len(e1[n].children) = Len(e2[n].children)
          /\ \A j \in 1..Len(e1[n].children) : j # c => e1[n].children[j] = e2[n].children[j]
          /\ SameOutside(e1[n].children[c], e2[n].children[c], Tail(p))

\* after is before with node put at index p (0-based), later nodes shifted right.
InsertedAt(before, after, p, node) ==
    /\ Len(after) = Len(before) + 1
    /\ \A k \in 1..p : after[k] = before[k]
    /\ after[p + 1] = node
    /\ \A k \in (p + 1)..Len(before) : after[k + 1] = before[k]

\* after is before without the node at index p (0-based), later nodes shifted left.
RemovedAt(before, after, p) ==
    /\ Len(after) = Len(before) - 1
    /\ \A k \in 1..p : after[k] = before[k]
    /\ \A k \in (p + 1)..Len(after) : after[k] = before[k + 1]

\* The last call left the tree, the path and the position as they were.
NothingChanged ==
    /\ root = pre.root
    /\ path = pre.path
    /\ cursorIndex = pre.cursorIndex

IsLink(link, nodeIndex, childIndex) ==
    /\ link.nodeIndex = nodeIndex
    /\ link.childIndex = childIndex

IsAtomic(node) == Len(node.children) = 0

(***************************************************************************)
(* Properties.                                                             *)
(***************************************************************************)

\* C1: in every state reached from the initial cursor by key events and
\* search-menu selections, every link of the path addresses an existing node
\* and an existing child of it, and 0 <= position <= length of the enclosing
\* expression.  (Checked under SpecUI.)
C1_CursorWithinTree ==
    /\ ValidPath(root, path)
    /\ ValidPath(root, path) => cursorIndex \in 0..Len(ExprAt(root, path))

\* Backspace at the start of a nested expression (depth 2) has removed the
\* enclosing node.
C1_Witness ==
    /\ op.name = "handleKeydown"
    /\ op.args[1] = "Backspace"
    /\ Len(pre.path) = 2
    /\ pre.cursorIndex = 0
    /\ err = NoError
    /\ Len(path) = 1
    /\ cursorIndex = Len(ExprAt(root, path))

\* C2: leaveNode at the root, removeEnclosingNode at the root and
\* deleteCharacterAtCursor at position 0 raise an error and leave the tree,
\* the path and the position exactly as they were.
C2_FailsWithoutEffect ==
    (\/ op.name = "leaveNode" /\ pre.path = <<>>
     \/ op.name = "removeEnclosingNode" /\ pre.path = <<>>
     \/ op.name = "deleteCharacterAtCursor" /\ pre.cursorIndex = 0)
    => (err # NoError /\ NothingChanged)

\* deleteCharacterAtCursor was called at position 0 of an expression inside
\* a node, with nodes after the cursor.
C2_Witness ==
    /\ op.name = "deleteCharacterAtCursor"
    /\ pre.cursorIndex = 0
    /\ pre.path # <<>>
    /\ Len(ExprAt(pre.root, pre.path)) > 0
    /\ err # NoError

\* C3: moveRight at the end of the enclosing expression leaves the enclosing
\* node on its trailing side (position nodeIndex + 1 in the parent), or does
\* nothing at the root; before a node with children it enters that node's
\* child 0 at position 0; before an atomic node it adds 1 to the position and
\* keeps the path.  The tree is never modified.
C3_MoveRight ==
    op.name = "moveRight" =>
        LET enclosing == ExprAt(pre.root, pre.path)
        IN /\ root = pre.root
           /\ IF pre.cursorIndex = Len(enclosing)
              THEN IF pre.path # <<>>
                   THEN /\ path = Front(pre.path)
                        /\ cursorIndex = Last(pre.path).nodeIndex + 1
                   ELSE NothingChanged
              ELSE IF ~IsAtomic(enclosing[pre.cursorIndex + 1])
                   THEN /\ Len(path) = Len(pre.path) + 1
                        /\ Front(path) = pre.path
                        /\ IsLink(Last(path), pre.cursorIndex, 0)
                        /\ cursorIndex = 0
                   ELSE /\ path = pre.path
                        /\ cursorIndex = pre.cursorIndex + 1

\* moveRight entered the first child of a two-child node that stands after
\* an atomic node, inside another node.
C3_Witness ==
    /\ op.name = "moveRight"
    /\ pre.path # <<>>
    /\ pre.cursorIndex = 1
    /\ Len(path) = 2
    /\ Last(path).nodeIndex = 1
    /\ Len(EnclosingNodeAt(root, path).children) = 2
    /\ cursorIndex = 0

\* C4: moveLeft at position 0 leaves the enclosing node on its leading side
\* (position nodeIndex in the parent), or does nothing at the root; after a
\* node with children it enters that node's child 0 at the end of that
\* child; after an atomic node it subtracts 1 from the position.  On a root
\* of three atomic nodes with position 3, three calls give position 0 and a
\* fourth changes nothing.
C4_MoveLeft ==
    /\ op.name = "moveLeft" =>
        LET enclosing == ExprAt(pre.root, pre.path)
        IN IF pre.cursorIndex = 0
           THEN IF pre.path # <<>>
                THEN /\ path = Front(pre.path)
                     /\ cursorIndex = Last(pre.path).nodeIndex
                     /\ root = pre.root
                ELSE NothingChanged
           ELSE IF ~IsAtomic(enclosing[pre.cursorIndex])
                THEN /\ Len(path) = Len(pre.path) + 1
                     /\ Front(path) = pre.path
                     /\ IsLink(Last(path), pre.cursorIndex - 1, 0)
                     /\ cursorIndex = Len(enclosing[pre.cursorIndex].children[1])
                ELSE /\ path = pre.path
                     /\ cursorIndex = pre.cursorIndex - 1
    /\ (/\ path = <<>>
        /\ cursorIndex = 3
        /\ Len(root) = 3
        /\ \A k \in 1..3 : IsAtomic(root[k]))
       => LET s3 == moveLeft(moveLeft(moveLeft(Cur)))
              s4 == moveLeft(s3)
          IN /\ s3.cursorIndex = 0
             /\ s3.path = <<>>
             /\ s4.root = s3.root
             /\ s4.path = s3.path
             /\ s4.cursorIndex = s3.cursorIndex

\* moveLeft entered, from its trailing side, the first child of a two-child
\* node whose two children have different lengths.
C4_Witness ==
    /\ op.name = "moveLeft"
    /\ pre.cursorIndex > 0
    /\ Len(path) = Len(pre.path) + 1
    /\ Len(EnclosingNodeAt(root, path).children) = 2
    /\ Len(EnclosingNodeAt(root, path).children[1]) = 1
    /\ Len(EnclosingNodeAt(root, path).children[2]) = 0
    /\ cursorIndex = 1

\* C5: moveDown, when the cursor is inside child c of a node and c is not
\* that node's last child, keeps the length of the path and the top link's
\* nodeIndex, makes the top link's child index c + 1 and puts the position at
\* the end of that sibling expression; at the root, or in the last child, it
\* changes nothing.
C5_MoveDown ==
    op.name = "moveDown" =>
        IF pre.path # <<>>
           /\ Last(pre.path).childIndex
                < Len(EnclosingNodeAt(pre.root, pre.path).children) - 1
        THEN /\ Len(path) = Len(pre.path)
             /\ Front(path) = Front(pre.path)
             /\ IsLink(Last(path), Last(pre.path).nodeIndex,
                       Last(pre.path).childIndex + 1)
             /\ cursorIndex =
                  Len(EnclosingNodeAt(pre.root, pre.path).children[
                        Last(pre.path).childIndex + 2])
        ELSE NothingChanged

\* moveDown went from the first child of a two-child node to the end of its
\* non-empty second child.
C5_Witness ==
    /\ op.name = "moveDown"
    /\ pre.path # <<>>
    /\ Last(pre.path).childIndex = 0
    /\ path # <<>>
    /\ Last(path).childIndex = 1
    /\ Len(ExprAt(root, path)) > 0
    /\ cursorIndex = Len(ExprAt(root, path))

\* C6: moveUp, when the cursor is inside child c > 0 of a node, keeps the
\* length of the path and the top link's nodeIndex, makes the top link's
\* child index c - 1 and puts the position at 0; at the root, or in child 0,
\* it changes nothing.
C6_MoveUp ==
    op.name = "moveUp" =>
        IF pre.path # <<>> /\ Last(pre.path).childIndex > 0
        THEN /\ Len(path) = Len(pre.path)
             /\ Front(path) = Front(pre.path)
             /\ IsLink(Last(path), Last(pre.path).nodeIndex,
                       Last(pre.path).childIndex - 1)
             /\ cursorIndex = 0
        ELSE NothingChanged

\* moveUp went from the second child of a two-child node to the start of its
\* non-empty first child.
C6_Witness ==
    /\ op.name = "moveUp"
    /\ pre.path # <<>>
    /\ Last(pre.path).childIndex = 1
    /\ path # <<>>
    /\ Last(path).childIndex = 0
    /\ Len(ExprAt(root, path)) > 0
    /\ cursorIndex = 0

\* C7: enterNode(nodeIndex, childIndex, direction) with valid indices appends
\* exactly the link (nodeIndex, childIndex) to the path, leaves the tree
\* unchanged and sets the position to 0 for direction "right" (leading) and
\* to the length of the entered child expression for direction "left"
\* (trailing).
C7_EnterNode ==
    op.name = "enterNode" =>
        /\ Len(path) = Len(pre.path) + 1
        /\ Front(path) = pre.path
        /\ IsLink(Last(path), op.args[1], op.args[2])
        /\ root = pre.root
        /\ op.args[3] = "right" => cursorIndex = 0
        /\ op.args[3] = "left" =>
              cursorIndex = Len(ExprAt(pre.root, pre.path)[op.args[1] + 1]
                                    .children[op.args[2] + 1])

\* After x and a fraction were inserted into the empty root,
\* enterNode(1, 0, "right") led into the empty numerator.
C7_Witness ==
    /\ op.name = "enterNode"
    /\ op.args = <<1, 0, "right">>
    /\ root = <<MathCharacter("x"), Fraction>>
    /\ pre.path = <<>>
    /\ pre.cursorIndex = 2
    /\ Len(path) = 1
    /\ IsLink(path[1], 1, 0)
    /\ cursorIndex = 0
    /\ ExprAt(root, path) = <<>>

\* C8: leaveNode(direction), when not at the root, removes exactly the last
\* link of the path and returns it, leaves the tree unchanged and sets the
\* position to that link's nodeIndex for direction "left" (leading) and to
\* nodeIndex + 1 for direction "right" (trailing); at the root it fails.
C8_LeaveNode ==
    op.name = "leaveNode" =>
        IF pre.path # <<>>
        THEN /\ err = NoError
             /\ path = Front(pre.path)
             /\ ret = Last(pre.path)
             /\ root = pre.root
             /\ op.args[1] = "left" => cursorIndex = Last(pre.path).nodeIndex
             /\ op.args[1] = "right" => cursorIndex = Last(pre.path).nodeIndex + 1
        ELSE err # NoError

\* leaveNode("right") left a node that is not the first of its expression,
\* from a position other than the one it arrives at.
C8_Witness ==
    /\ op.name = "leaveNode"
    /\ op.args[1] = "right"
    /\ Len(pre.path) = 2
    /\ Last(pre.path).nodeIndex = 1
    /\ pre.cursorIndex = 0
    /\ Len(path) = 1
    /\ cursorIndex = 2
    /\ err = NoError

\* C9: insertCharacterAtCursor(symbol) and insertNodeAtCursor(node) at
\* position p put exactly one node at index p of the enclosing expression
\* (the nodes from p on shift right by one, everything else is unchanged),
\* leave the path unchanged and set the position to p + 1;
\* insertNodeAtCursor returns p.
C9_InsertAtCursor ==
    op.name \in {"insertCharacterAtCursor", "insertNodeAtCursor"} =>
        LET node == IF op.name = "insertCharacterAtCursor"
                    THEN MathCharacter(op.args[1])
                    ELSE op.args[1]
        IN /\ path = pre.path
           /\ cursorIndex = pre.cursorIndex + 1
           /\ SameOutside(pre.root, root, pre.path)
           /\ InsertedAt(ExprAt(pre.root, pre.path), ExprAt(root, path),
                         pre.cursorIndex, node)
           /\ op.name = "insertNodeAtCursor" => ret = pre.cursorIndex

\* A fraction was inserted after x into a root that held only x
\* (position 2, index 1 returned).
C9_Witness ==
    /\ op.name = "insertNodeAtCursor"
    /\ op.args[1] = Fraction
    /\ pre.root = <<MathCharacter("x")>>
    /\ pre.path = <<>>
    /\ pre.cursorIndex = 1
    /\ root = <<MathCharacter("x"), Fraction>>
    /\ cursorIndex = 2
    /\ ret = 1

\* C10: deleteCharacterAtCursor at position p > 0 removes exactly the node
\* at index p - 1 of the enclosing expression, whatever its kind, leaves
\* every other node and the path unchanged and sets the position to p - 1;
\* at position 0 it fails with the out-of-bounds error.
C10_DeleteCharacterAtCursor ==
    op.name = "deleteCharacterAtCursor" =>
        IF pre.cursorIndex > 0
        THEN /\ err = NoError
             /\ path = pre.path
             /\ cursorIndex = pre.cursorIndex - 1
             /\ SameOutside(pre.root, root, pre.path)
             /\ RemovedAt(ExprAt(pre.root, pre.path), ExprAt(root, path),
                          pre.cursorIndex - 1)
        ELSE err = ErrRemoveOutOfBounds

\* A node with children was deleted from between two different nodes.
C10_Witness ==
    /\ op.name = "deleteCharacterAtCursor"
    /\ err = NoError
    /\ pre.cursorIndex = 2
    /\ Len(ExprAt(pre.root, pre.path)) = 3
    /\ ~IsAtomic(ExprAt(pre.root, pre.path)[2])
    /\ ExprAt(pre.root, pre.path)[1] # ExprAt(pre.root, pre.path)[3]
    /\ cursorIndex = 1

\* C11: removeEnclosingNode, when not at the root, removes the last link
\* (n, c) from the path, removes the node at index n (with everything in its
\* child expressions) from the parent expression, leaves all other nodes in
\* order and sets the position to n; at the root it fails with the
\* no-enclosing-node error.
C11_RemoveEnclosingNode ==
    op.name = "removeEnclosingNode" =>
        IF pre.path # <<>>
        THEN /\ err = NoError
             /\ path = Front(pre.path)
             /\ cursorIndex = Last(pre.path).nodeIndex
             /\ SameOutside(pre.root, root, Front(pre.path))
             /\ RemovedAt(ExprAt(pre.root, Front(pre.path)), ExprAt(root, path),
                          Last(pre.path).nodeIndex)
        ELSE err = ErrNoEnclosingNode

\* From the second child of a two-child node that stands after x and holds
\* a node in its first child, removeEnclosingNode left only x.
C11_Witness ==
    /\ op.name = "removeEnclosingNode"
    /\ err = NoError
    /\ Len(pre.path) = 1
    /\ IsLink(pre.path[1], 1, 1)
    /\ Len(pre.root) = 2
    /\ Len(pre.root[2].children[1]) = 1
    /\ root = <<MathCharacter("x")>>
    /\ path = <<>>
    /\ cursorIndex = 1

\* The (path, position) of two states differ.
CursorMoved(s, t) == s.path # t.path \/ s.cursorIndex # t.cursorIndex

\* C12: whenever neither call is a no-op, moveRight followed by moveLeft
\* returns the cursor to the original (path, position), also from the end
\* of the second child expression of a two-child node.
C12_RightThenLeftReturns ==
    LET right == moveRight(Cur)
        left == moveLeft(right)
    IN (CursorMoved(Cur, right) /\ CursorMoved(right, left))
       => (left.path = path /\ left.cursorIndex = cursorIndex)

\* A new two-child node whose child 0 was just entered from the leading side.
EnteredNewTwoChildNode ==
    /\ op.name = "enterNode"
    /\ op.args[2] = 0
    /\ op.args[3] = "right"
    /\ err = NoError
    /\ Len(EnclosingNodeAt(root, path).children) = 2
    /\ EnclosingNodeAt(root, path).children = << <<>>, <<>> >>

\* C13: after a new two-child node was inserted and its child 0 entered from
\* the leading side (position 0), moveDown lands at the end of child 1 of the
\* same node and moveUp after it lands at the start of child 0: the same path
\* and the position the cursor had before moveDown.
C13_DownThenUpReturns ==
    EnteredNewTwoChildNode =>
        LET down == moveDown(Cur)
            up == moveUp(down)
        IN /\ Len(down.path) = Len(path)
           /\ Front(down.path) = Front(path)
           /\ IsLink(Last(down.path), Last(path).nodeIndex, 1)
           /\ down.cursorIndex = Len(EnclosingNodeAt(root, path).children[2])
           /\ up.path = path
           /\ up.cursorIndex = cursorIndex
           /\ up.cursorIndex = 0
           /\ up.root = root

\* The new two-child node stands after another node inside a third one, and
\* moveDown from its child 0 moves the cursor.
C13_Witness ==
    /\ EnteredNewTwoChildNode
    /\ Len(path) = 2
    /\ Last(path).nodeIndex = 1
    /\ moveDown(Cur).path # path
    /\ moveUp(moveDown(Cur)).path = path

(***************************************************************************)
(* A MathExpression used on its own: root is its node array, and           *)
(* insertNode and removeNthNode are called with any index, valid or not.   *)
(***************************************************************************)
\* The indices the calls are tried with: one below 0 to one above length.
Indices == -1..(Len(root) + 1)

ExprInsertNode ==
    /\ CountNodes(root) < MaxNodes
    /\ \E before \in Indices, node \in NewNodes :
        Call("MathExpression.insertNode", <<before, node>>,
             [Cur EXCEPT !.root = insertNode(root, before, node)])

ExprRemoveNthNode ==
    \E index \in Indices :
        LET removed == removeNthNode(root, index)
        IN Call("MathExpression.removeNthNode", <<index>>,
                IF removed.thrown
                THEN Throw(Cur, ErrRemoveOutOfBounds)
                ELSE [Cur EXCEPT !.root = removed.nodes])

NextExpression ==
    \/ ExprInsertNode
    \/ ExprRemoveNthNode

SpecExpression == Init /\ [][NextExpression]_vars

\* C14: for every expression and every index i in [0, length], after
\* insertNode(i, n) a removeNthNode(i) succeeds and leaves the node sequence
\* identical (same nodes, same order) to the sequence before the insertion.
C14_InsertThenRemove ==
    (/\ op.name = "MathExpression.insertNode"
     /\ op.args[1] \in 0..Len(pre.root))
    => removeNthNode(root, op.args[1]) = [thrown |-> FALSE, nodes |-> pre.root]

\* A fraction was inserted at index 1 of [x, (], between the two, and
\* removing index 1 gives [x, (] back.
C14_Witness ==
    /\ op.name = "MathExpression.insertNode"
    /\ op.args[1] = 1
    /\ pre.root = <<MathCharacter("x"), Bracket("(", ")")>>
    /\ root = <<MathCharacter("x"), Fraction, Bracket("(", ")")>>
    /\ removeNthNode(root, 1).nodes = pre.root

\* C15: removeNthNode(index) with index < 0 or index >= length raises an
\* error and leaves the node sequence unchanged; with a valid index it
\* removes exactly that node and shifts the later nodes left by one.
C15_RemoveNthNode ==
    op.name = "MathExpression.removeNthNode" =>
        IF op.args[1] < 0 \/ op.args[1] >= Len(pre.root)
        THEN err = ErrRemoveOutOfBounds /\ root = pre.root
        ELSE err = NoError /\ RemovedAt(pre.root, root, op.args[1])

\* removeNthNode(length) on a two-node expression threw and changed nothing.
C15_Witness ==
    /\ op.name = "MathExpression.removeNthNode"
    /\ Len(pre.root) = 2
    /\ op.args[1] = 2
    /\ err = ErrRemoveOutOfBounds
    /\ root = pre.root

\* C16: insertNode with an invalid index (index < 0 or index > length)
\* raises an error and leaves the node sequence unchanged; with an index in
\* [0, length] it never fails and places the node at exactly that index.
C16_InsertNodeBounds ==
    op.name = "MathExpression.insertNode" =>
        IF op.args[1] < 0 \/ op.args[1] > Len(pre.root)
        THEN err # NoError /\ root = pre.root
        ELSE err = NoError /\ InsertedAt(pre.root, root, op.args[1], op.args[2])

(***************************************************************************)
(* Rendering.  The nodes that are rendered are objects with ids.  An       *)
(* expression is reached by the path that leads to it, built with moveInto *)
(* as the cursor's own path is; the expression object it reaches is the    *)
(* root or a child of the node object that owns it, so that the identity   *)
(* test `cursor.getEnclosingExpression() === this` compares owners and     *)
(* child indices: two places of one node object hold the same expressions. *)
(***************************************************************************)
CURSOR_ID == "__cursor"

\* MathNode.id: the string the constructor drew with _provisionNewID().
NodeId(node) == node.id

getElementID(id) == "node-" \o id

getHTMLPrefix(id) == "\\htmlId{" \o getElementID(id) \o "}"

\* Cursor.focus at time t
focus(s, t) ==
    notifyUpdates([s EXCEPT !.focused = TRUE, !.blinkState = TRUE,
                            !.lastBlinkInterrupt = t])

\* blur that also resets the blink phase to visible, as focus does
blurResettingBlink(s) == notifyUpdates([s EXCEPT !.focused = FALSE, !.blinkState = TRUE])

\* Cursor.blur
blur(s) == notifyUpdates([s EXCEPT !.focused = FALSE])

\* Cursor.renderAsLatex
renderAsLatex(s) ==
    IF ~s.focused THEN ""
    ELSE "\\!\\htmlId{" \o CURSOR_ID \o "}{\\textcolor{"
             \o (IF s.blinkState THEN "black" ELSE "white") \o "}{|}}"

\* Array.join
RECURSIVE Join(_, _)
Join(parts, separator) ==
    IF Len(parts) = 0 THEN ""
    ELSE IF Len(parts) = 1 THEN parts[1]
    ELSE parts[1] \o separator \o Join(Tail(parts), separator)

\* The expression object a path that resolves reaches: the root expression,
\* or the child childIndex of the node object the last link names.
ExpressionObject(r, p) ==
    IF atRoot(p) THEN [root |-> TRUE]
    ELSE [root |-> FALSE,
          node |-> NodeId(resolveLinkInfo(r, p, p[Len(p)]).enclosingNode),
          childIndex |-> p[Len(p)].childIndex]

\* cursor.getEnclosingExpression() === this, for the expression at address
EnclosesCursor(address, s) ==
    LET e == getEnclosingExpression(s.root, s.path)
    IN /\ ~e.thrown
       /\ e.defined
       /\ ExpressionObject(s.root, address) = ExpressionObject(s.root, s.path)

RECURSIVE renderAsLaTeX(_, _, _)

\* renderAsLaTeX of the node classes, for the node at nodeIndex of the
\* expression at address.
renderNodeAsLaTeX(node, address, nodeIndex, s) ==
    LET prefix == getHTMLPrefix(NodeId(node))
        child(c) == renderAsLaTeX(node.children[c + 1],
                                  moveInto(address, nodeIndex, c), s)
    IN CASE node.cls = "MathCharacter" -> prefix \o node.args[1]
         [] node.cls = "Fraction" ->
                prefix \o "{\\frac{" \o child(0) \o "}{" \o child(1) \o "}}"
         [] node.cls = "Sum" ->
                prefix \o "{\\displaystyle\\sum_{" \o child(1) \o "}^{" \o child(0) \o "}}"
         [] node.cls = "IntegralType" ->
                prefix \o "{\\displaystyle\\" \o node.args[1] \o "_{" \o child(1)
                       \o "}^{" \o child(0) \o "}}"
         [] node.cls = "EvaluatedFrom" ->
                prefix \o "{\\displaystyle{\\Large\\vert}_{" \o child(1)
                       \o "}^{" \o child(0) \o "}}"
         [] node.cls = "Product" ->
                prefix \o "{\\displaystyle\\prod_{" \o child(1) \o "}^{" \o child(0) \o "}}"
         [] node.cls = "BigUnion" ->
                prefix \o "{\\displaystyle\\bigcup_{" \o child(1) \o "}^{" \o child(0) \o "}}"
         [] node.cls = "BigIntersection" ->
                prefix \o "{\\displaystyle\\bigcap_{" \o child(1) \o "}^{" \o child(0) \o "}}"
         [] node.cls = "SubscriptableFunction" ->
                prefix \o "{\\displaystyle\\" \o node.args[1] \o "_{" \o child(0) \o "}}"
         [] node.cls = "CommandEnclosable" ->
                prefix \o "{" \o node.args[1] \o "{" \o child(0) \o "}}"
         [] node.cls = "Limit" ->
                prefix \o "{\\displaystyle\\lim_{" \o child(0) \o "}}"
         [] node.cls = "Bracket" ->
                prefix \o "{\\kern-0.1em\\left" \o node.args[1] \o child(0)
                       \o "\\right" \o node.args[2] \o "}"
         [] node.cls = "Superscript" -> prefix \o "{{}^{" \o child(0) \o "}}"
         [] node.cls = "Subscript" -> prefix \o "{{}_{" \o child(0) \o "}}"

\* The fragments of the nodes of an expression: this._nodes.map(...)
NodeFragments(expression, address, s) ==
    [k \in 1..Len(expression) |->
        renderNodeAsLaTeX(expression[k], address, k - 1, s)]

\* renderedParts with the marker put over the fragment at the cursor index:
\* splice(index, 1, marker)
renderedPartsOverwriting(expression, address, s) ==
    LET parts == NodeFragments(expression, address, s)
    IN IF EnclosesCursor(address, s)
       THEN LET start == SpliceStart(Len(parts), s.cursorIndex)
            IN SubSeq(parts, 1, start) \o <<renderAsLatex(s)>>
                   \o SubSeq(parts, start + 2, Len(parts))
       ELSE parts

\* MathExpression.renderAsLaTeX, the list before it is joined
renderedParts(expression, address, s) ==
    LET parts == NodeFragments(expression, address, s)
    IN IF EnclosesCursor(address, s)
       THEN LET start == SpliceStart(Len(parts), s.cursorIndex)
            IN SubSeq(parts, 1, start) \o <<renderAsLatex(s)>>
                   \o SubSeq(parts, start + 1, Len(parts))
       ELSE parts

\* renderAsLaTeX giving the placeholder whenever there are no nodes
renderAsLaTeXPlaceholderWithoutNodes(expression, address, s) ==
    IF Len(expression) = 0 THEN "~"
    ELSE Join(renderedParts(expression, address, s), " ")

\* MathExpression.renderAsLaTeX
renderAsLaTeX(expression, address, s) ==
    LET rendered == Join(renderedParts(expression, address, s), " ")
    IN IF rendered = "" THEN "~" ELSE rendered

\* renderAsLaTeX putting the cursor into this._nodes, not into renderedParts
renderRootSplicingNodes(s) ==
    LET e == getEnclosingExpression(s.root, s.path)
    IN IF e.thrown
       THEN Throw(s, TypeError)
       ELSE [s EXCEPT !.ret = renderAsLaTeX(s.root, <<>>, s),
                      !.root = WithEnclosingNodes(s.root, s.path,
                                   insertNode(e.enclosingExpression, s.cursorIndex,
                                              HeldNode(MathCharacter(renderAsLatex(s)),
                                                       CURSOR_ID)))]

\* root.renderAsLaTeX(cursor), as the host calls it on every update
renderRoot(s) ==
    IF getEnclosingExpression(s.root, s.path).thrown
    THEN Throw(s, TypeError)
    ELSE [s EXCEPT !.ret = renderAsLaTeX(s.root, <<>>, s)]

Focus == Call("focus", <<>>, focus(Cur, now))

Blur == Call("blur", <<>>, blur(Cur))

Render == Call("renderAsLaTeX", <<>>, renderRoot(Cur))

\* The node objects the host has built with `new` and holds: each has the
\* id it drew, and the host may insert it whether or not it is in the tree.
RenderedObjects ==
    {HeldNode(MathCharacter("x"), "021f5544dbdcbb55"),
     HeldNode(Bracket("(", ")"), "9c41d07be3a6f218"),
     HeldNode(Fraction, "5e0b7a13c98d4f62")}

\* The object as it is now: as the host holds it, or as `new` builds it
\* when the host has not built it yet.
CurrentValue(h, object) ==
    IF NodeId(object) \in DOMAIN h THEN h[NodeId(object)] ELSE object

\* The objects the host holds, node among them
Holding(h, node) ==
    [o \in DOMAIN h \cup {NodeId(node)} |-> IF o = NodeId(node) THEN node ELSE h[o]]

\* The ids of the node objects that own the expressions along a path
OwnersAlong(r, p) ==
    {NodeId(resolveLinkInfo(r, p, p[k]).enclosingNode) : k \in 1..Len(p)}

\* insertNodeAtCursor with an object the host holds.  An object is not put
\* into itself (the tree would become cyclic and no render would return).
RenderedInsertNodeAtCursor ==
    \E object \in RenderedObjects :
        LET node == CurrentValue(held, object)
            inserted == insertNodeAtCursor([Cur EXCEPT !.held = Holding(held, node)], node)
        IN /\ OwnersAlong(root, path) \cap {NodeId(n) : n \in NodesOf(<<node>>)} = {}
           /\ CountNodes(inserted.root) <= MaxRenderedNodes
           /\ Call("insertNodeAtCursor", <<node>>, inserted)

\* deleteCharacterAtCursor, which may take the last place of an object out
\* of the tree: the host still holds the object, with its children.
RenderedDeleteCharacterAtCursor ==
    LET deleted == deleteCharacterAtCursor(Cur)
    IN /\ Cardinality({o \in DOMAIN held : ObjectOccurrences(deleted.root, o) = 0})
              <= MaxDetachedNodes
       /\ Call("deleteCharacterAtCursor", <<>>, deleted)

NextRender ==
    \/ RenderedInsertNodeAtCursor
    \/ RenderedDeleteCharacterAtCursor
    \/ MoveRight
    \/ MoveLeft
    \/ MoveUp
    \/ Focus
    \/ Render

SpecRender == Init /\ [][NextRender]_vars

\* The paths to all expressions of the tree below (and including) the
\* expression at address.
RECURSIVE AddressesFrom(_, _)
AddressesFrom(expression, address) ==
    {address} \cup
    UNION {UNION {AddressesFrom(expression[k].children[c],
                                moveInto(address, k - 1, c - 1)) :
                      c \in 1..Len(expression[k].children)} :
               k \in 1..Len(expression)}

\* The number of places of text at which sub occurs.
Occurrences(text, sub) ==
    Cardinality({k \in 1..(Len(text) - Len(sub) + 1) :
                    SubSeq(text, k, k + Len(sub) - 1) = sub})

\* C17: when the root is rendered with the cursor, the cursor's marker is
\* inserted in the fragment list of an expression if and only if that
\* expression is the cursor's current enclosing expression, and there it
\* sits at index position, between the fragments of nodes position - 1 and
\* position, with every node's fragment still present and in order; in a
\* valid state, a tree in which no node object is at two places, the marker
\* of a focused cursor occurs exactly once in the whole output.
C17_MarkerPlacement ==
    (op.name = "renderAsLaTeX" /\ err = NoError) =>
        /\ \A a \in AddressesFrom(root, <<>>) :
              LET parts == renderedParts(ExprAt(root, a), a, Cur)
                  fragments == NodeFragments(ExprAt(root, a), a, Cur)
              IN IF ExpressionObject(root, a) = ExpressionObject(root, path)
                 THEN InsertedAt(fragments, parts, cursorIndex, renderAsLatex(Cur))
                 ELSE parts = fragments
        /\ (focused /\ \A node \in NodesOf(root) :
                           ObjectOccurrences(root, NodeId(node)) = 1)
               => Occurrences(ret, renderAsLatex(Cur)) = 1

\* The root [x, fraction] was rendered with the focused cursor between its
\* two nodes: three fragments, the marker the second.
C17_Witness ==
    /\ op.name = "renderAsLaTeX"
    /\ err = NoError
    /\ focused
    /\ path = <<>>
    /\ cursorIndex = 1
    /\ Len(root) = 2
    /\ root[2].cls = "Fraction"
    /\ Len(renderedParts(root, <<>>, Cur)) = 3
    /\ renderedParts(root, <<>>, Cur)[2] = renderAsLatex(Cur)
    /\ Occurrences(ret, renderAsLatex(Cur)) = 1

\* C18: an expression renders as the placeholder "~" exactly when it has no
\* nodes and the cursor is not present in it, the cursor being present where
\* its marker is put: in the expression that encloses it while it is
\* focused (an unfocused cursor renders as the empty string and leaves no
\* marker).  An expression without nodes that encloses the focused cursor
\* renders as the cursor marker, and an expression with at least one node
\* never renders as the bare placeholder.
C18_Placeholder ==
    (op.name = "renderAsLaTeX" /\ err = NoError) =>
        \A a \in AddressesFrom(root, <<>>) :
            LET expression == ExprAt(root, a)
                rendered == renderAsLaTeX(expression, a, Cur)
                present == /\ ExpressionObject(root, a) = ExpressionObject(root, path)
                           /\ focused
            IN /\ rendered = "~" <=> (Len(expression) = 0 /\ ~present)
               /\ (Len(expression) = 0 /\ present) => rendered = renderAsLatex(Cur)
               /\ Len(expression) > 0 => rendered # "~"

\* A fraction was rendered with the focused cursor in its empty numerator:
\* the numerator is the marker and the empty denominator the placeholder.
C18_Witness ==
    /\ op.name = "renderAsLaTeX"
    /\ err = NoError
    /\ focused
    /\ Len(root) = 1
    /\ root[1].cls = "Fraction"
    /\ root[1].children = << <<>>, <<>> >>
    /\ Len(path) = 1
    /\ IsLink(path[1], 0, 0)
    /\ ret = getHTMLPrefix(NodeId(root[1])) \o "{\\frac{" \o renderAsLatex(Cur) \o "}{~}}"

(***************************************************************************)
(* The cursor with update callbacks registered by its host.                *)
(***************************************************************************)
MaxCallbacks == 1       \* callbacks registered in one behaviour
MaxObservedNodes == 2   \* nodes in the whole tree while callbacks are observed

Callbacks == {"render", "save"}

\* Cursor.onUpdate
onUpdate(s, callback) == [s EXCEPT !.onUpdateCallbacks = Append(@, callback)]

OnUpdate ==
    /\ Len(onUpdateCallbacks) < MaxCallbacks
    /\ \E callback \in Callbacks :
        Call("onUpdate", <<callback>>, onUpdate(Cur, callback))

ObservedInsertCharacterAtCursor ==
    /\ CountNodes(root) < MaxObservedNodes
    /\ InsertCharacterAtCursor

ObservedInsertNodeAtCursor ==
    /\ CountNodes(root) < MaxObservedNodes
    /\ InsertNodeAtCursor

NextNotify ==
    \/ OnUpdate
    \/ EnterNode
    \/ LeaveNode
    \/ MoveRight
    \/ MoveLeft
    \/ MoveDown
    \/ MoveUp
    \/ ObservedInsertCharacterAtCursor
    \/ ObservedInsertNodeAtCursor
    \/ DeleteCharacterAtCursor
    \/ RemoveEnclosingNode
    \/ Focus
    \/ Blur

SpecNotify == Init /\ [][NextNotify]_vars

\* The calls that are to conclude by notifying the registered observers.
NotifyingCalls ==
    {"enterNode", "leaveNode", "moveRight", "moveLeft", "moveDown", "moveUp",
     "insertCharacterAtCursor", "insertNodeAtCursor", "deleteCharacterAtCursor",
     "removeEnclosingNode", "focus", "blur"}

\* C19: each successful call of enterNode, leaveNode, moveRight, moveLeft,
\* moveDown, moveUp, insertCharacterAtCursor, insertNodeAtCursor,
\* deleteCharacterAtCursor, removeEnclosingNode, focus or blur invokes every
\* registered update callback at least once after the call's final (tree,
\* path, position) has been established, also when the call is a no-op.
C19_EveryCallNotifies ==
    (op.name \in NotifyingCalls /\ err = NoError) =>
        \A k \in 1..Len(onUpdateCallbacks) :
            \E j \in 1..Len(notes) :
                /\ notes[j].callback = onUpdateCallbacks[k]
                /\ notes[j].root = root
                /\ notes[j].path = path
                /\ notes[j].cursorIndex = cursorIndex

\* blinkTimer with the operands of the subtraction exchanged
blinkTimerSubtractingNow(s, t) ==
    IF s.lastBlinkInterrupt - t < DebounceWindow THEN s
    ELSE notifyUpdates([s EXCEPT !.blinkState = ~@])

(***************************************************************************)
(* The blinking cursor: the clock advances, the interval timer of the      *)
(* constructor fires when it is due or later, and focus, blur, key events  *)
(* and renders of the cursor come in between.                              *)
(***************************************************************************)
\* The timer callback still holding back when exactly the window has passed
blinkTimerInclusiveWindow(s, t) ==
    IF t - s.lastBlinkInterrupt <= DebounceWindow THEN s
    ELSE notifyUpdates([s EXCEPT !.blinkState = ~@])

\* The timer callback toggling the blink state whatever the last interrupt
blinkTimerWithoutDebounce(s, t) ==
    notifyUpdates([s EXCEPT !.blinkState = ~@])

\* The callback given to setInterval in the constructor, run at time t
blinkTimer(s, t) ==
    IF t - s.lastBlinkInterrupt < DebounceWindow THEN s
    ELSE notifyUpdates([s EXCEPT !.blinkState = ~@])

\* The keys pressed while the cursor blinks.
BlinkKeys == {"a", "ArrowLeft"}

\* Time passes.
Advance ==
    /\ now + TimeStep <= StartTime + MaxElapsed
    /\ now' = now + TimeStep
    /\ Effects("wait", <<TimeStep>>, Cur)
    /\ UNCHANGED nextTick

\* The timer fires, on time or late; the next firing is due one interval
\* after this one was due, or after it ran.
Tick ==
    /\ now >= nextTick
    /\ Effects("blinkTimer", <<>>, blinkTimer(Cur, now))
    /\ nextTick' \in {nextTick + BlinkInterval, now + BlinkInterval}
    /\ UNCHANGED now

BlinkKeydown ==
    \E key \in BlinkKeys :
        /\ key \in InsertingKeys => CountNodes(root) < MaxNodes
        /\ Call("handleKeydown", <<key>>, handleKeydown(Cur, key, now, TRUE))

RenderCursor == Call("renderAsLatex", <<>>, [Cur EXCEPT !.ret = renderAsLatex(Cur)])

NextBlink ==
    \/ Advance
    \/ Tick
    \/ Focus
    \/ Blur
    \/ BlinkKeydown
    \/ RenderCursor

SpecBlink == Init /\ [][NextBlink]_vars

\* The marker of the cursor in its visible blink phase.
BlackMarker == "\\!\\htmlId{__cursor}{\\textcolor{black}{|}}"

\* C20: after focus() at time t, every render of the cursor at a time t'
\* with t' - t < 500 ms and no blur() in between yields the visible (black)
\* blink phase, however the ticks of the 700 ms timer interleave with the
\* calls; an unfocused cursor renders as the empty string.
C20_VisibleAfterFocus ==
    op.name = "renderAsLatex" =>
        /\ ~focused => ret = ""
        /\ (lastFocus # <<>> /\ now - lastFocus[1] < 500) => ret = BlackMarker

\* The cursor was rendered black 250 ms after focus(), the timer having
\* fired in between.
C20_Witness ==
    /\ op.name = "renderAsLatex"
    /\ focused
    /\ lastFocus # <<>>
    /\ now - lastFocus[1] = 250
    /\ lastFocus[1] < nextTick - BlinkInterval
    /\ ret = BlackMarker

\* The marker of the cursor in its hidden blink phase.
WhiteMarker == "\\!\\htmlId{__cursor}{\\textcolor{white}{|}}"

\* C39: the cursor's own render is the empty string whenever focused is
\* false, whatever the blink phase; when focused it is the marked glyph,
\* black if the blink phase is visible and white otherwise.  blur() changes
\* only the focus flag: blink phase, tree, path and position are unchanged.
\* focus() always sets the blink phase to visible.
C39_CursorRender ==
    [][/\ op'.name = "renderAsLatex" =>
            /\ ret' = IF ~focused THEN ""
                      ELSE IF blinkState THEN BlackMarker ELSE WhiteMarker
            /\ UNCHANGED <<root, path, cursorIndex, focused, blinkState>>
       /\ op'.name = "blur" =>
            /\ ~focused'
            /\ UNCHANGED <<root, path, cursorIndex, blinkState, lastBlinkInterrupt>>
       /\ op'.name = "focus" =>
            /\ focused'
            /\ blinkState'
            /\ UNCHANGED <<root, path, cursorIndex>>]_vars

\* After an interrupt the timer hid the cursor, the cursor is unfocused in
\* the hidden phase, and its render is empty.
C39_Witness ==
    /\ op.name = "renderAsLatex"
    /\ lastBlinkInterrupt >= StartTime
    /\ ~focused
    /\ ~blinkState
    /\ ret = ""

(***************************************************************************)
(* The blinking cursor observed by the host's update callbacks.            *)
(***************************************************************************)
NextTimer ==
    \/ OnUpdate
    \/ Advance
    \/ Tick
    \/ Focus
    \/ Blur
    \/ BlinkKeydown

SpecTimer == Init /\ [][NextTimer]_vars

\* C21: a tick of the blink timer at time now toggles the blink phase and
\* notifies the observers if and only if now - lastInterrupt >= 500 ms; a
\* tick within 500 ms of the last interrupt changes no state and notifies
\* nobody.
C21_TickDebounced ==
    [][op'.name = "blinkTimer" =>
          IF now - lastBlinkInterrupt >= 500
          THEN /\ blinkState' = ~blinkState
               /\ Len(notes') = Len(onUpdateCallbacks)
               /\ \A k \in 1..Len(onUpdateCallbacks) :
                      /\ notes'[k].callback = onUpdateCallbacks[k]
                      /\ notes'[k].blinkState = blinkState'
               /\ UNCHANGED <<root, path, cursorIndex, focused, lastBlinkInterrupt,
                              onUpdateCallbacks>>
          ELSE /\ notes' = <<>>
               /\ UNCHANGED <<root, path, cursorIndex, focused, blinkState,
                              lastBlinkInterrupt, onUpdateCallbacks>>]_vars

\* The timer fired exactly 500 ms after the last interrupt, hid the cursor
\* and told the one registered callback.
C21_Witness ==
    /\ op.name = "blinkTimer"
    /\ now - lastBlinkInterrupt = 500
    /\ ~blinkState
    /\ Len(notes) = 1
    /\ notes[1].blinkState = FALSE

\* C22: every interrupt, that is each focus change (focus() and blur()) and
\* each keystroke (handleKeydown), sets the last-interrupt timestamp to the
\* time of the call.
C22_InterruptsTimestamped ==
    op.name \in {"focus", "blur", "handleKeydown"} => lastBlinkInterrupt = now

(***************************************************************************)
(* enterNode called by a host with any indices, valid or not.              *)
(***************************************************************************)
MaxDepth == 2        \* links on the path when enterNode is called with any indices
MaxEnteredNodes == 2 \* nodes in the whole tree that is entered with any indices

\* The indices enterNode is tried with.
EntryNodeIndices == -1..MaxEnteredNodes
EntryChildIndices == 0..2

EnteredInsertCharacterAtCursor ==
    /\ CountNodes(root) < MaxEnteredNodes
    /\ InsertCharacterAtCursor

EnteredInsertNodeAtCursor ==
    /\ CountNodes(root) < MaxEnteredNodes
    /\ InsertNodeAtCursor

EnterNodeAnywhere ==
    /\ Len(path) < MaxDepth
    /\ \E nodeIndex \in EntryNodeIndices, childIndex \in EntryChildIndices,
          direction \in Directions :
        Call("enterNode", <<nodeIndex, childIndex, direction>>,
             enterNode(Cur, nodeIndex, childIndex, direction))

NextEnter ==
    \/ EnterNodeAnywhere
    \/ LeaveNode
    \/ MoveRight
    \/ MoveLeft
    \/ EnteredInsertCharacterAtCursor
    \/ EnteredInsertNodeAtCursor

SpecEnter == Init /\ [][NextEnter]_vars

\* (nodeIndex, childIndex) addresses a child expression of a node of the
\* expression the valid path p leads to.
ValidEntry(expression, p, nodeIndex, childIndex) ==
    /\ nodeIndex \in 0..(Len(ExprAt(expression, p)) - 1)
    /\ childIndex \in 0..(Len(ExprAt(expression, p)[nodeIndex + 1].children) - 1)

\* C25: enterNode(nodeIndex, childIndex, side) called with a nodeIndex that
\* is not an index of the current enclosing expression, or a childIndex that
\* is not a child index of that node (any atomic node included), never
\* leaves such a link on the path: after the call the path and the position
\* equal those before the call, for both sides.
C25_InvalidEntryLeavesNoLink ==
    (/\ op.name = "enterNode"
     /\ ValidPath(pre.root, pre.path)
     /\ ~ValidEntry(pre.root, pre.path, op.args[1], op.args[2]))
    => (path = pre.path /\ cursorIndex = pre.cursorIndex)

(***************************************************************************)
(* The cursor observed by update callbacks while it is driven both by      *)
(* direct calls and by key events.                                         *)
(***************************************************************************)
ObservedKeys == {"a", "(", "/", "Backspace",
                 "ArrowRight", "ArrowLeft", "ArrowDown", "ArrowUp"}

ObservedKeydown ==
    \E key \in ObservedKeys :
        /\ key \in InsertingKeys => CountNodes(root) < MaxObservedNodes
        /\ Call("handleKeydown", <<key>>, handleKeydown(Cur, key, now, TRUE))

NextObserve ==
    \/ OnUpdate
    \/ EnterNode
    \/ LeaveNode
    \/ MoveRight
    \/ MoveLeft
    \/ MoveDown
    \/ MoveUp
    \/ ObservedInsertCharacterAtCursor
    \/ ObservedInsertNodeAtCursor
    \/ DeleteCharacterAtCursor
    \/ RemoveEnclosingNode
    \/ ObservedKeydown

SpecObserve == Init /\ [][NextObserve]_vars

\* C26: at every invocation of an update callback, the ones fired in the
\* middle of moveDown/moveUp (between the leave and the re-enter), of
\* moveRight/moveLeft and of the shorthand keys (between insert and enter)
\* included, the state the callback observes has a fully valid path and
\* 0 <= position <= length(enclosing expression).
C26_CallbacksSeeValidState ==
    \A j \in 1..Len(notes) :
        /\ ValidPath(notes[j].root, notes[j].path)
        /\ notes[j].cursorIndex \in
               0..Len(ExprAt(notes[j].root, notes[j].path))

\* The key "/" was pressed after x: the callback ran three times, the
\* second time between the insertion of the fraction and the entry into
\* its numerator, with the cursor after the fraction in the old expression.
C26_Witness ==
    /\ op.name = "handleKeydown"
    /\ op.args[1] = "/"
    /\ err = NoError
    /\ pre.cursorIndex = 1
    /\ Len(notes) = 3
    /\ notes[2].path = pre.path
    /\ notes[2].cursorIndex = 2
    /\ notes[3].path = path
    /\ Len(path) = Len(pre.path) + 1

\* C27: rendering the root expression with the cursor changes nothing: after
\* renderAsLaTeX every expression's node sequence, the path, the position,
\* the focus flag and the blink phase are as before, and a second render of
\* the same state gives the same output.
C27_RenderChangesNothing ==
    [][op'.name = "renderAsLaTeX" =>
          /\ UNCHANGED <<root, path, cursorIndex, focused, blinkState>>
          /\ err' = NoError
          /\ ret' = renderRoot(Cur).ret
          /\ ret' = renderRoot([Cur EXCEPT !.root = root', !.path = path',
                                          !.cursorIndex = cursorIndex',
                                          !.focused = focused',
                                          !.blinkState = blinkState']).ret]_vars

\* A bracket holding x was rendered with the focused cursor inside it,
\* after x, and tree and cursor are as they were.
C27_Witness ==
    /\ op.name = "renderAsLaTeX"
    /\ focused
    /\ Len(root) = 1
    /\ root[1].cls = "Bracket"
    /\ Len(root[1].children[1]) = 1
    /\ root[1].children[1][1].cls = "MathCharacter"
    /\ Len(path) = 1
    /\ cursorIndex = 1
    /\ root = pre.root
    /\ path = pre.path
    /\ cursorIndex = pre.cursorIndex
    /\ Occurrences(ret, renderAsLatex(Cur)) = 1

\* C28: handleKeydown("Backspace") with position > 0 removes the node
\* immediately before the cursor and decrements the position; with position
\* 0 inside a node it removes the whole enclosing node and puts the cursor at
\* that node's former index in the parent; with position 0 at the root it
\* raises an error and leaves tree, path and position unchanged.
C28_Backspace ==
    (op.name = "handleKeydown" /\ op.args[1] = "Backspace") =>
        IF pre.cursorIndex > 0
        THEN /\ err = NoError
             /\ path = pre.path
             /\ cursorIndex = pre.cursorIndex - 1
             /\ SameOutside(pre.root, root, path)
             /\ RemovedAt(ExprAt(pre.root, path), ExprAt(root, path),
                          pre.cursorIndex - 1)
        ELSE IF pre.path # <<>>
        THEN /\ err = NoError
             /\ path = Front(pre.path)
             /\ cursorIndex = Last(pre.path).nodeIndex
             /\ SameOutside(pre.root, root, path)
             /\ RemovedAt(ExprAt(pre.root, path), ExprAt(root, path),
                          Last(pre.path).nodeIndex)
        ELSE /\ err = ErrNoEnclosingNode
             /\ NothingChanged

\* Backspace at the start of the second child of a fraction that follows a
\* removed the fraction and left the cursor after a.
C28_Witness ==
    /\ op.name = "handleKeydown"
    /\ op.args[1] = "Backspace"
    /\ err = NoError
    /\ pre.cursorIndex = 0
    /\ Len(pre.path) = 1
    /\ IsLink(pre.path[1], 1, 1)
    /\ Len(pre.root) = 2
    /\ root = <<MathCharacter("a")>>
    /\ path = <<>>
    /\ cursorIndex = 1

(***************************************************************************)
(* The editor driven by key events alone, with every shorthand key and     *)
(* with key strings of every kind, on a small tree.                        *)
(***************************************************************************)

ShorthandKeys == {"(", "{", "[", "/", "_", "^"}

ShorthandKeydown ==
    \E key \in ShorthandKeys \cup {"ArrowLeft", "ArrowRight"} :
        /\ key \in ShorthandKeys => CountNodes(root) < MaxKeyedNodes
        /\ Call("handleKeydown", <<key>>, handleKeydown(Cur, key, now, TRUE))

NextShorthand == ShorthandKeydown

SpecShorthand == Init /\ [][NextShorthand]_vars

\* C29: handleKeydown with one of the shorthand keys "(", "{", "[", "/",
\* "_", "^" at position p inserts exactly one new compound node at index p
\* of the enclosing expression and leaves the cursor inside that node's
\* first child: the path is the old path extended by the link (p, 0), the
\* position is 0 and the new enclosing expression is empty.
C29_ShorthandKeys ==
    (op.name = "handleKeydown" /\ op.args[1] \in ShorthandKeys) =>
        /\ err = NoError
        /\ SameOutside(pre.root, root, pre.path)
        /\ Len(ExprAt(root, pre.path)) = Len(ExprAt(pre.root, pre.path)) + 1
        /\ InsertedAt(ExprAt(pre.root, pre.path), ExprAt(root, pre.path),
                      pre.cursorIndex, ExprAt(root, pre.path)[pre.cursorIndex + 1])
        /\ ~IsAtomic(ExprAt(root, pre.path)[pre.cursorIndex + 1])
        /\ \A c \in 1..Len(ExprAt(root, pre.path)[pre.cursorIndex + 1].children) :
               ExprAt(root, pre.path)[pre.cursorIndex + 1].children[c] = <<>>
        /\ Len(path) = Len(pre.path) + 1
        /\ Front(path) = pre.path
        /\ Last(path) = Link(pre.cursorIndex, 0, Len(pre.path))
        /\ cursorIndex = 0
        /\ ExprAt(root, path) = <<>>

\* "_" was pressed with the cursor before a bracket at the root: the
\* subscript stands before the bracket and the cursor is inside it.
C29_Witness ==
    /\ op.name = "handleKeydown"
    /\ op.args[1] = "_"
    /\ pre.root = <<Bracket("[", "]")>>
    /\ pre.path = <<>>
    /\ pre.cursorIndex = 0
    /\ root = <<Subscript, Bracket("[", "]")>>
    /\ path = <<Link(0, 0, 0)>>
    /\ cursorIndex = 0

\* Key strings of every kind: single letters and digits, punctuation, the
\* mapped "*" and space, the empty string, strings of several characters
\* inside and outside ALPHANUM, a key name with no branch, and a move.
LiteralKeys == {"a", "Z", "7", "+", "|", "*", " ", "", "ab", "yz0", "Enter", "ArrowLeft"}

LiteralKeydown ==
    \E key \in LiteralKeys :
        /\ key # "ArrowLeft" => CountNodes(root) < MaxKeyedNodes
        /\ Call("handleKeydown", <<key>>, handleKeydown(Cur, key, now, TRUE))

NextLiteral == LiteralKeydown

SpecLiteral == Init /\ [][NextLiteral]_vars

\* C30: handleKeydown inserts exactly one atomic node at the cursor when
\* the key is a single letter, digit or character of the punctuation set
\* (symbol = the key), "*" (symbol \cdot) or space (symbol ~); a key string
\* that is neither one of these single characters nor another mapped key
\* name, such as the empty string or a string of several characters, leaves
\* the tree, the path and the position unchanged.
C30_LiteralKeys ==
    op.name = "handleKeydown" =>
        LET key == op.args[1]
            single == Len(key) = 1 /\ (Includes(ALPHANUM, key) \/ Includes(PUNCTUATION, key))
            symbol == IF key = "*" THEN "\\cdot" ELSE IF key = " " THEN "~" ELSE key
            mapped == {"%", "$", "Backspace", "\\", "ArrowRight", "ArrowLeft",
                       "ArrowDown", "ArrowUp"} \cup ShorthandKeys
        IN IF single \/ key \in {"*", " "}
           THEN /\ err = NoError
                /\ SameOutside(pre.root, root, pre.path)
                /\ InsertedAt(ExprAt(pre.root, pre.path), ExprAt(root, pre.path),
                              pre.cursorIndex, MathCharacter(symbol))
                /\ path = pre.path
                /\ cursorIndex = pre.cursorIndex + 1
           ELSE key \notin mapped =>
                /\ root = pre.root
                /\ path = pre.path
                /\ cursorIndex = pre.cursorIndex

(***************************************************************************)
(* The editor with a caller that keeps the node objects it has built and   *)
(* may hand the same object to insertNodeAtCursor again.  A node the       *)
(* caller holds carries the id of its object (MathNode.id) in the field id; *)
(* nodes the cursor builds itself (new MathCharacter, new Bracket) are     *)
(* new objects at every call and carry none.  The caller's objects here    *)
(* are atomic; objects with children are inserted a second time in the     *)
(* specification of rendering (RenderedInsertNodeAtCursor).                *)
(***************************************************************************)
MaxAliasedNodes == 3   \* nodes in the whole tree of this specification

CallerNodes == {HeldNode(MathCharacter("x"), "021f5544dbdcbb55"),
                HeldNode(MathCharacter("y"), "b7402e9ad15c63f8")}

CallerObjects == {node.id : node \in CallerNodes}

CallerInsertNodeAtCursor ==
    /\ CountNodes(root) < MaxAliasedNodes
    /\ \E node \in CallerNodes :
        Call("insertNodeAtCursor", <<node>>, insertNodeAtCursor(Cur, node))

AliasKeydown ==
    \E key \in {"a", "(", "Backspace"} :
        /\ key \in {"a", "("} => CountNodes(root) < MaxAliasedNodes
        /\ Call("handleKeydown", <<key>>, handleKeydown(Cur, key, now, TRUE))

NextAlias ==
    \/ CallerInsertNodeAtCursor
    \/ AliasKeydown
    \/ MoveRight
    \/ MoveLeft
    \/ DeleteCharacterAtCursor
    \/ RemoveEnclosingNode

SpecAlias == Init /\ [][NextAlias]_vars

\* C23: after any sequence of cursor insertions, deletions and moves,
\* insertNodeAtCursor with a node object of the caller included, every
\* node object occurs at most once in the whole tree.
C23_NoAliasing ==
    \A o \in CallerObjects : ObjectOccurrences(root, o) <= 1

(***************************************************************************)
(* The search menu with a host that registers focus-requested callbacks,   *)
(* opens the menu from the editor, closes it at any time and clicks into   *)
(* the document.                                                           *)
(***************************************************************************)
MaxFocusCallbacks == 2   \* registered focus-requested callbacks
MaxOpens == 2            \* times the menu is opened

FocusCallbacks == {"focusEditor", "scrollToEditor"}

\* Cursor.onFocusRequested
onFocusRequested(s, callback) ==
    [s EXCEPT !.onRequestFocusCallbacks = Append(@, callback)]

OnFocusRequested ==
    /\ Len(onRequestFocusCallbacks) < MaxFocusCallbacks
    /\ \E callback \in FocusCallbacks :
        Call("onFocusRequested", <<callback>>, onFocusRequested(Cur, callback))

\* The backslash key: the menu opens at the cursor's element, and the
\* handler throws when no such element is in the document.
OpenMenu ==
    /\ clickListeners < MaxOpens
    /\ \E cursorElement \in BOOLEAN :
        Call("handleKeydown", <<"\\">>, handleKeydown(Cur, "\\", now, cursorElement))

\* cursor.searchMenu.open(left, top) called by the host
Open ==
    /\ clickListeners < MaxOpens
    /\ Call("open", <<>>, [open(Cur) EXCEPT !.ret = NoValue])

CloseAnytime == Call("close", <<>>, close(Cur))

ClickDocument ==
    \E outside \in BOOLEAN :
        Call("click", <<outside>>, dispatchClick(Cur, clickListeners, outside))

NextMenu ==
    \/ OnFocusRequested
    \/ OpenMenu
    \/ Open
    \/ CloseAnytime
    \/ ClickDocument

SpecMenu == Init /\ [][NextMenu]_vars

\* C24: close() on an open search menu marks it closed and invokes every
\* registered focus-requested callback exactly once, in registration
\* order; close() on a menu that is not open does nothing and invokes no
\* callback.  So each cycle of opening and closing requests focus exactly
\* once, also when the closing comes from a click outside the popup that
\* several click listeners answer.
C24_CloseRequestsFocusOnce ==
    [][/\ op'.name = "close" =>
            IF isOpen
            THEN /\ ~isOpen'
                 /\ focusCalls' = onRequestFocusCallbacks
                 /\ UNCHANGED onRequestFocusCallbacks
            ELSE /\ focusCalls' = <<>>
                 /\ UNCHANGED <<root, path, cursorIndex, focused, isOpen, currentElement,
                                popups, clickListeners, onRequestFocusCallbacks>>
       /\ op'.name = "click" =>
            /\ focusCalls' = IF isOpen /\ op'.args[1] THEN onRequestFocusCallbacks ELSE <<>>
            /\ isOpen' = (isOpen /\ ~op'.args[1])]_vars

\* The menu was opened, closed and opened again, and close() has just
\* closed it the second time: both callbacks ran once, in the order of
\* their registration.
C24_Witness ==
    /\ op.name = "close"
    /\ clickListeners = 2
    /\ ~isOpen
    /\ popups = 0
    /\ onRequestFocusCallbacks = <<"scrollToEditor", "focusEditor">>
    /\ focusCalls = <<"scrollToEditor", "focusEditor">>

\* C34: whenever the search menu is closed after having been opened, no
\* click-outside listener installed by open() remains registered on the
\* document, so the number of registered listeners does not grow with the
\* number of cycles of opening and closing.
C34_NoListenerLeftAfterClose ==
    ~isOpen => clickListeners = 0

(***************************************************************************)
(* The search menu selecting items of both kinds: opened from the editor,  *)
(* an item selected or the menu closed, the cursor moved in between.       *)
(***************************************************************************)
RegisteredItems == {AlphaItem, FractionItem, LimitItem}

SelectItem ==
    /\ popups > 0
    /\ CountNodes(root) < MaxKeyedNodes
    /\ \E item \in RegisteredItems :
        \E handled \in {selectResult(Cur, item)} :
            \E after \in {afterSelection(handled, way) : way \in Selections(Cur)} :
                Call("selectResult", <<item>>, after)

NextSelect ==
    \/ OpenMenu
    \/ SelectItem
    \/ CloseAnytime
    \/ MoveLeft
    \/ MoveRight
    \/ MoveDown

SpecSelect == Init /\ [][NextSelect]_vars

\* C31: selecting a registered item changes the document only through the
\* cursor's insertion and enter operations.  A symbol item inserts exactly
\* one atomic node at the position and increments the position; a compound
\* item inserts one new node at position p and enters (p, child 0) from the
\* leading side, ending at position 0 of the new node's first child.  No
\* menu action removes nodes or pops the path.
C31_MenuOnlyInserts ==
    /\ op.name = "selectResult" =>
        LET item == op.args[1]
            before == ExprAt(pre.root, pre.path)
            after == ExprAt(root, pre.path)
        IN /\ err = NoError
           /\ SameOutside(pre.root, root, pre.path)
           /\ CountNodes(root) = CountNodes(pre.root) + 1
           /\ IF item.inserts = "character"
              THEN /\ InsertedAt(before, after, pre.cursorIndex, MathCharacter(item.character))
                   /\ path = pre.path
                   /\ cursorIndex = pre.cursorIndex + 1
              ELSE /\ InsertedAt(before, after, pre.cursorIndex, item.node)
                   /\ path = Append(pre.path, Link(pre.cursorIndex, 0, Len(pre.path)))
                   /\ cursorIndex = 0
                   /\ ExprAt(root, path) = <<>>
    /\ op.name = "close" =>
        /\ root = pre.root
        /\ path = pre.path
        /\ cursorIndex = pre.cursorIndex

\* The Fraction item was selected with the cursor inside a limit: the
\* fraction stands at index 0 there and the cursor is in its numerator.
C31_Witness ==
    /\ op.name = "selectResult"
    /\ op.args[1] = FractionItem
    /\ pre.root = <<Limit>>
    /\ Len(pre.path) = 1
    /\ Len(path) = 2
    /\ path[2] = Link(0, 0, 1)
    /\ cursorIndex = 0
    /\ ExprAt(root, pre.path) = <<Fraction>>

(***************************************************************************)
(* A caller that builds a tree, places the cursor, and from then on calls  *)
(* one of moveRight and moveLeft again and again.                          *)
(***************************************************************************)
MaxSweptNodes == 2   \* nodes in the whole tree that is swept

\* The caller has begun to repeat a move.
Sweeping == op.name \in {"moveRight", "moveLeft"}

\* The tree is typed, with symbols and fractions, and the cursor is placed
\* with the arrow keys.
SweptKeys == {"x", "/", "ArrowLeft", "ArrowDown"}

SweptKeydown ==
    /\ ~Sweeping
    /\ \E key \in SweptKeys :
        /\ key \in {"x", "/"} => CountNodes(root) < MaxSweptNodes
        /\ Call("handleKeydown", <<key>>, handleKeydown(Cur, key, now, TRUE))

SweepRight ==
    /\ op.name # "moveLeft"
    /\ MoveRight

SweepLeft ==
    /\ op.name # "moveRight"
    /\ MoveLeft

NextSweep ==
    \/ SweptKeydown
    \/ SweepRight
    \/ SweepLeft

\* What a move of the cursor changes.
sweptVars == <<root, path, cursorIndex, op.name>>

\* The caller keeps calling: a call that moves the cursor and is possible
\* is made.
SpecSweep ==
    Init /\ [][NextSweep]_vars /\ WF_sweptVars(SweepRight) /\ WF_sweptVars(SweepLeft)

\* C32: from any valid state on a finite tree, repeatedly calling moveRight
\* reaches the state (empty path, position = length of the root) after
\* finitely many calls and then stays there; repeatedly calling moveLeft
\* reaches (empty path, position 0) and stays there.
C32_SweepTerminates ==
    /\ [](op.name = "moveRight" =>
            <>[](err = NoError /\ path = <<>> /\ cursorIndex = Len(root)))
    /\ [](op.name = "moveLeft" =>
            <>[](err = NoError /\ path = <<>> /\ cursorIndex = 0))

\* On a fraction with x in its denominator, the cursor has reached the end
\* of the root and a further moveRight left it there.
C32_Witness ==
    /\ op.name = "moveRight"
    /\ root = <<[Fraction EXCEPT !.children = << <<>>, <<MathCharacter("x")>> >>]>>
    /\ path = <<>>
    /\ cursorIndex = 1
    /\ pre.path = <<>>
    /\ pre.cursorIndex = 1

(***************************************************************************)
(* A typed tree walked with the four moves.                                *)
(***************************************************************************)
ReachKeydown ==
    /\ CountNodes(root) < MaxSweptNodes
    /\ \E key \in {"x", "/", "("} :
        Call("handleKeydown", <<key>>, handleKeydown(Cur, key, now, TRUE))

NextReach ==
    \/ ReachKeydown
    \/ MoveRight
    \/ MoveLeft
    \/ MoveDown
    \/ MoveUp

SpecReach == Init /\ [][NextReach]_vars

\* A place of the cursor: an expression slot and an index in it.
Place(s) == [path |-> s.path, cursorIndex |-> s.cursorIndex]

\* The places one call of moveLeft, moveRight, moveUp or moveDown leads to
\* from the place p on the tree of s.
MovesFrom(s, p) ==
    LET at == [s EXCEPT !.path = p.path, !.cursorIndex = p.cursorIndex]
    IN {Place(r) : r \in {t \in {moveLeft(at), moveRight(at), moveUp(at), moveDown(at)} :
                             ~Failed(t)}}

\* The places finitely many calls lead to from the places in reached.
RECURSIVE MoveClosure(_, _)
MoveClosure(s, reached) ==
    LET further == reached \cup UNION {MovesFrom(s, p) : p \in reached}
    IN IF further = reached THEN reached ELSE MoveClosure(s, further)

\* Every expression slot of the tree with every index from 0 to its length.
AllPlaces(expression) ==
    UNION {{[path |-> address, cursorIndex |-> i] :
                i \in 0..Len(ExprAt(expression, address))} :
           address \in AddressesFrom(expression, <<>>)}

\* The cursor as the constructor leaves it: at the root, at index 0.
InitialPlace == [path |-> <<>>, cursorIndex |-> 0]

\* C33: for every expression slot of the tree (the root and every child
\* expression of every node, the second child of two-child nodes included)
\* and every index from 0 to the slot's length, a finite sequence of
\* moveLeft, moveRight, moveUp and moveDown calls from the initial cursor
\* puts the cursor at that slot and index.
C33_EveryPlaceReachable ==
    AllPlaces(root) \subseteq MoveClosure(Cur, {InitialPlace})

\* moveDown has put the cursor into the denominator of a fraction that
\* holds x, and moveLeft has brought it to index 0 there.
C33_Witness ==
    /\ op.name = "moveLeft"
    /\ root = <<[Fraction EXCEPT !.children = << <<>>, <<MathCharacter("x")>> >>]>>
    /\ path = <<Link(0, 1, 0)>>
    /\ cursorIndex = 0
    /\ Place(Cur) \in MoveClosure(Cur, {InitialPlace})

(***************************************************************************)
(* Typing into the blinking cursor: key events, the timer, observers and   *)
(* renders of the cursor interleaved in time.                              *)
(***************************************************************************)
NextTyping ==
    \/ OnUpdate
    \/ Advance
    \/ Tick
    \/ Focus
    \/ Blur
    \/ BlinkKeydown
    \/ RenderCursor

SpecTyping == Init /\ [][NextTyping]_vars

\* C37: while the cursor is focused and the last keystroke, the one before
\* it and so on are less than 500 ms apart, that is at every moment less
\* than 500 ms after the last interrupt, the blink phase is visible at
\* every observer notification and at every render: no tick of the timer
\* interleaved between the keystrokes flips it.
C37_NoFlickerWhileTyping ==
    (focused /\ lastBlinkInterrupt >= StartTime /\ now - lastBlinkInterrupt < 500) =>
        /\ blinkState
        /\ \A k \in 1..Len(notes) : notes[k].blinkState
        /\ op.name = "renderAsLatex" => ret = BlackMarker
        /\ op.name = "blinkTimer" => notes = <<>>

\* A key was pressed while the cursor was in its hidden phase, 750 ms after
\* the focus: the observer was notified twice and saw the visible phase
\* both times.
C37_Witness ==
    /\ op.name = "handleKeydown"
    /\ op.args[1] = "a"
    /\ focused
    /\ lastFocus # <<>>
    /\ now - lastFocus[1] = 750
    /\ lastBlinkInterrupt = now
    /\ Len(notes) = 2
    /\ notes[1].blinkState
    /\ notes[2].blinkState

(***************************************************************************)
(* The blink timer running for ever.  Only the differences between         *)
(* Date.now(), the time of the last interrupt and the time the next tick   *)
(* is due matter to the code, so the times are kept relative to the        *)
(* present: when time passes, now stays and the other times move back.     *)
(* The time of an interrupt is not moved back beyond 0, which is more than *)
(* the debounce window before now.                                         *)
(***************************************************************************)
Max(a, b) == IF a >= b THEN a ELSE b

\* The time that passes in one step: half an interval of the timer.
QuietStep == BlinkInterval \div 2

\* Time passes, unless the timer is due: setInterval fires it first.
Elapse ==
    /\ now < nextTick
    /\ nextTick' = nextTick - QuietStep
    /\ lastBlinkInterrupt' = Max(lastBlinkInterrupt - QuietStep, 0)
    /\ lastFocus' = IF lastFocus = <<>> THEN <<>> ELSE <<Max(lastFocus[1] - QuietStep, 0)>>
    /\ op' = [name |-> "wait", args |-> <<>>]
    /\ pre' = [root |-> root, path |-> path, cursorIndex |-> cursorIndex]
    /\ err' = NoError
    /\ ret' = NoValue
    /\ notes' = <<>>
    /\ focusCalls' = <<>>
    /\ UNCHANGED <<now, root, path, cursorIndex, focused, blinkState, onUpdateCallbacks,
                   onRequestFocusCallbacks, isOpen, currentElement, popups,
                   clickListeners, registered, held>>

\* The host registers its one observer.
QuietOnUpdate ==
    /\ onUpdateCallbacks = <<>>
    /\ Call("onUpdate", <<>>, onUpdate(Cur, "render"))

\* An arrow key: an interrupt that leaves the tree as it is.
QuietKeydown ==
    Call("handleKeydown", <<>>, handleKeydown(Cur, "ArrowLeft", now, TRUE))

NextQuiet ==
    \/ Elapse
    \/ Tick
    \/ QuietOnUpdate
    \/ Focus
    \/ QuietKeydown

\* What the passing of time and the timer change.
clockVars == <<nextTick, blinkState, lastBlinkInterrupt>>

\* Time passes, and setInterval fires the timer when it is due.
SpecQuiet ==
    Init /\ [][NextQuiet]_vars /\ WF_clockVars(Elapse) /\ WF_clockVars(Tick)

\* C38: if from some moment on no focus() and no handleKeydown() occurs,
\* then under fair timer ticks every tick from 500 ms after the last
\* interrupt toggles the blink phase: the blink phase is visible infinitely
\* often and hidden infinitely often, and the observers are notified on
\* each such tick.
C38_BlinksWhenQuiet ==
    <>[][op'.name \notin {"focus", "handleKeydown"}]_<<op.name, lastBlinkInterrupt>>
        => /\ []<>blinkState
           /\ []<>(~blinkState /\ op.name = "blinkTimer"
                   /\ Len(notes) = Len(onUpdateCallbacks)
                   /\ \A k \in 1..Len(notes) : ~notes[k].blinkState)

\* After a key was pressed the timer has toggled the cursor to hidden and
\* notified the observer.
C38_Witness ==
    /\ op.name = "blinkTimer"
    /\ lastBlinkInterrupt > 0
    /\ now - lastBlinkInterrupt >= 500
    /\ ~blinkState
    /\ Len(notes) = 1
    /\ ~notes[1].blinkState

(***************************************************************************)
(* String.prototype.toLowerCase and toUpperCase: the string is read as     *)
(* code points, each code point is mapped by the case conversion of the    *)
(* Unicode Character Database (version 17.0: the simple mappings of        *)
(* UnicodeData.txt, the unconditional mappings of SpecialCasing.txt and    *)
(* its one condition without a language, Final_Sigma), and the result is   *)
(* written as code units again.                                            *)
(***************************************************************************)
\* The arrays of the arrays in order, one after the other: their elements,
\* when each has one
RECURSIVE Flat(_)
Flat(arrays) ==
    IF \A k \in 1..Len(arrays) : Len(arrays[k]) = 1
    THEN [k \in 1..Len(arrays) |-> arrays[k][1]] \o <<>>
    ELSE Head(arrays) \o Flat(Tail(arrays))

LeadingSurrogate(unit) == 55296 <= unit /\ unit <= 56319
TrailingSurrogate(unit) == 56320 <= unit /\ unit <= 57343

\* StringToCodePoints: a leading surrogate followed by a trailing one is one
\* code point, every other code unit is a code point by itself; so a string
\* without leading surrogates is its code points.
RECURSIVE StringToCodePoints(_)
StringToCodePoints(string) ==
    IF \A k \in 1..Len(string) : ~LeadingSurrogate(string[k]) THEN string
    ELSE IF /\ Len(string) > 1
            /\ LeadingSurrogate(string[1])
            /\ TrailingSurrogate(string[2])
    THEN <<65536 + (string[1] - 55296) * 1024 + (string[2] - 56320)>>
             \o StringToCodePoints(SubSeq(string, 3, Len(string)))
    ELSE <<string[1]>> \o StringToCodePoints(Tail(string))

\* CodePointsToString: a code point from 65536 on is written as a leading
\* and a trailing surrogate, every other one as itself.
CodePointsToString(points) ==
    IF \A k \in 1..Len(points) : points[k] < 65536 THEN points
    ELSE Flat([k \in 1..Len(points) |->
                  IF points[k] >= 65536
                  THEN <<55296 + ((points[k] - 65536) \div 1024),
                         56320 + ((points[k] - 65536) % 1024)>>
                  ELSE <<points[k]>>])

\* The functions of an array of functions with disjoint domains, as one
RECURSIVE Merged(_, _, _)
Merged(functions, lo, hi) ==
    IF lo = hi THEN functions[lo]
    ELSE LET mid == (lo + hi) \div 2
         IN Merged(functions, lo, mid) @@ Merged(functions, mid + 1, hi)

\* The mapping of code points that ranges give: <<first, last, step, delta>>
\* maps first, first + step, ... up to last to itself plus delta.
SimpleMapping(ranges) ==
    Merged([k \in 1..Len(ranges) |->
               LET r == ranges[k]
               IN [point \in {r[1] + i * r[3] : i \in 0..((r[2] - r[1]) \div r[3])} |->
                      <<point + r[4]>>]],
           1, Len(ranges))

\* The mapping of code points to several code points that pairs give
SpecialMapping(pairs) ==
    Merged([k \in 1..Len(pairs) |-> pairs[k][1] :> pairs[k][2]], 1, Len(pairs))

\* The code points with a lower-case mapping to one code point
LowerCaseRanges ==
    <<
     <<65, 90, 1, 32>>, <<192, 214, 1, 32>>, <<216, 222, 1, 32>>, <<256, 302, 2, 1>>,
     <<306, 310, 2, 1>>, <<313, 327, 2, 1>>, <<330, 374, 2, 1>>, <<376, 376, 1, -121>>,
     <<377, 381, 2, 1>>, <<385, 385, 1, 210>>, <<386, 388, 2, 1>>, <<390, 390, 1, 206>>,
     <<391, 391, 1, 1>>, <<393, 394, 1, 205>>, <<395, 395, 1, 1>>, <<398, 398, 1, 79>>,
     <<399, 399, 1, 202>>, <<400, 400, 1, 203>>, <<401, 401, 1, 1>>, <<403, 403, 1, 205>>,
     <<404, 404, 1, 207>>, <<406, 406, 1, 211>>, <<407, 407, 1, 209>>, <<408, 408, 1, 1>>,
     <<412, 412, 1, 211>>, <<413, 413, 1, 213>>, <<415, 415, 1, 214>>, <<416, 420, 2, 1>>,
     <<422, 422, 1, 218>>, <<423, 423, 1, 1>>, <<425, 425, 1, 218>>, <<428, 428, 1, 1>>,
     <<430, 430, 1, 218>>, <<431, 431, 1, 1>>, <<433, 434, 1, 217>>, <<435, 437, 2, 1>>,
     <<439, 439, 1, 219>>, <<440, 440, 1, 1>>, <<444, 444, 1, 1>>, <<452, 452, 1, 2>>,
     <<453, 453, 1, 1>>, <<455, 455, 1, 2>>, <<456, 456, 1, 1>>, <<458, 458, 1, 2>>,
     <<459, 475, 2, 1>>, <<478, 494, 2, 1>>, <<497, 497, 1, 2>>, <<498, 500, 2, 1>>,
     <<502, 502, 1, -97>>, <<503, 503, 1, -56>>, <<504, 542, 2, 1>>, <<544, 544, 1, -130>>,
     <<546, 562, 2, 1>>, <<570, 570, 1, 10795>>, <<571, 571, 1, 1>>, <<573, 573, 1, -163>>,
     <<574, 574, 1, 10792>>, <<577, 577, 1, 1>>, <<579, 579, 1, -195>>, <<580, 580, 1, 69>>,
     <<581, 581, 1, 71>>, <<582, 590, 2, 1>>, <<880, 882, 2, 1>>, <<886, 886, 1, 1>>,
     <<895, 895, 1, 116>>, <<902, 902, 1, 38>>, <<904, 906, 1, 37>>, <<908, 908, 1, 64>>,
     <<910, 911, 1, 63>>, <<913, 929, 1, 32>>, <<931, 939, 1, 32>>, <<975, 975, 1, 8>>,
     <<984, 1006, 2, 1>>, <<1012, 1012, 1, -60>>, <<1015, 1015, 1, 1>>, <<1017, 1017, 1, -7>>,
     <<1018, 1018, 1, 1>>, <<1021, 1023, 1, -130>>, <<1024, 1039, 1, 80>>, <<1040, 1071, 1, 32>>,
     <<1120, 1152, 2, 1>>, <<1162, 1214, 2, 1>>, <<1216, 1216, 1, 15>>, <<1217, 1229, 2, 1>>,
     <<1232, 1326, 2, 1>>, <<1329, 1366, 1, 48>>, <<4256, 4293, 1, 7264>>, <<4295, 4295, 1, 7264>>,
     <<4301, 4301, 1, 7264>>, <<5024, 5103, 1, 38864>>, <<5104, 5109, 1, 8>>, <<7305, 7305, 1, 1>>,
     <<7312, 7354, 1, -3008>>, <<7357, 7359, 1, -3008>>, <<7680, 7828, 2, 1>>, <<7838, 7838, 1, -7615>>,
     <<7840, 7934, 2, 1>>, <<7944, 7951, 1, -8>>, <<7960, 7965, 1, -8>>, <<7976, 7983, 1, -8>>,
     <<7992, 7999, 1, -8>>, <<8008, 8013, 1, -8>>, <<8025, 8031, 2, -8>>, <<8040, 8047, 1, -8>>,
     <<8072, 8079, 1, -8>>, <<8088, 8095, 1, -8>>, <<8104, 8111, 1, -8>>, <<8120, 8121, 1, -8>>,
     <<8122, 8123, 1, -74>>, <<8124, 8124, 1, -9>>, <<8136, 8139, 1, -86>>, <<8140, 8140, 1, -9>>,
     <<8152, 8153, 1, -8>>, <<8154, 8155, 1, -100>>, <<8168, 8169, 1, -8>>, <<8170, 8171, 1, -112>>,
     <<8172, 8172, 1, -7>>, <<8184, 8185, 1, -128>>, <<8186, 8187, 1, -126>>, <<8188, 8188, 1, -9>>,
     <<8486, 8486, 1, -7517>>, <<8490, 8490, 1, -8383>>, <<8491, 8491, 1, -8262>>, <<8498, 8498, 1, 28>>,
     <<8544, 8559, 1, 16>>, <<8579, 8579, 1, 1>>, <<9398, 9423, 1, 26>>, <<11264, 11311, 1, 48>>,
     <<11360, 11360, 1, 1>>, <<11362, 11362, 1, -10743>>, <<11363, 11363, 1, -3814>>, <<11364, 11364, 1, -10727>>,
     <<11367, 11371, 2, 1>>, <<11373, 11373, 1, -10780>>, <<11374, 11374, 1, -10749>>, <<11375, 11375, 1, -10783>>,
     <<11376, 11376, 1, -10782>>, <<11378, 11378, 1, 1>>, <<11381, 11381, 1, 1>>, <<11390, 11391, 1, -10815>>,
     <<11392, 11490, 2, 1>>, <<11499, 11501, 2, 1>>, <<11506, 11506, 1, 1>>, <<42560, 42604, 2, 1>>,
     <<42624, 42650, 2, 1>>, <<42786, 42798, 2, 1>>, <<42802, 42862, 2, 1>>, <<42873, 42875, 2, 1>>,
     <<42877, 42877, 1, -35332>>, <<42878, 42886, 2, 1>>, <<42891, 42891, 1, 1>>, <<42893, 42893, 1, -42280>>,
     <<42896, 42898, 2, 1>>, <<42902, 42920, 2, 1>>, <<42922, 42922, 1, -42308>>, <<42923, 42923, 1, -42319>>,
     <<42924, 42924, 1, -42315>>, <<42925, 42925, 1, -42305>>, <<42926, 42926, 1, -42308>>, <<42928, 42928, 1, -42258>>,
     <<42929, 42929, 1, -42282>>, <<42930, 42930, 1, -42261>>, <<42931, 42931, 1, 928>>, <<42932, 42946, 2, 1>>,
     <<42948, 42948, 1, -48>>, <<42949, 42949, 1, -42307>>, <<42950, 42950, 1, -35384>>, <<42951, 42953, 2, 1>>,
     <<42955, 42955, 1, -42343>>, <<42956, 42970, 2, 1>>, <<42972, 42972, 1, -42561>>, <<42997, 42997, 1, 1>>,
     <<65313, 65338, 1, 32>>, <<66560, 66599, 1, 40>>, <<66736, 66771, 1, 40>>, <<66928, 66938, 1, 39>>,
     <<66940, 66954, 1, 39>>, <<66956, 66962, 1, 39>>, <<66964, 66965, 1, 39>>, <<68736, 68786, 1, 64>>,
     <<68944, 68965, 1, 32>>, <<71840, 71871, 1, 32>>, <<93760, 93791, 1, 32>>, <<93856, 93880, 1, 27>>,
     <<125184, 125217, 1, 34>>
    >>

\* U+0130, the code point whose lower case is two code points
SpecialLowerCase ==
    <<
     <<304, <<105, 775>>>>
    >>

\* The code points with an upper-case mapping to one code point
UpperCaseRanges ==
    <<
     <<97, 122, 1, -32>>, <<181, 181, 1, 743>>, <<224, 246, 1, -32>>, <<248, 254, 1, -32>>,
     <<255, 255, 1, 121>>, <<257, 303, 2, -1>>, <<305, 305, 1, -232>>, <<307, 311, 2, -1>>,
     <<314, 328, 2, -1>>, <<331, 375, 2, -1>>, <<378, 382, 2, -1>>, <<383, 383, 1, -300>>,
     <<384, 384, 1, 195>>, <<387, 389, 2, -1>>, <<392, 392, 1, -1>>, <<396, 396, 1, -1>>,
     <<402, 402, 1, -1>>, <<405, 405, 1, 97>>, <<409, 409, 1, -1>>, <<410, 410, 1, 163>>,
     <<411, 411, 1, 42561>>, <<414, 414, 1, 130>>, <<417, 421, 2, -1>>, <<424, 424, 1, -1>>,
     <<429, 429, 1, -1>>, <<432, 432, 1, -1>>, <<436, 438, 2, -1>>, <<441, 441, 1, -1>>,
     <<445, 445, 1, -1>>, <<447, 447, 1, 56>>, <<453, 453, 1, -1>>, <<454, 454, 1, -2>>,
     <<456, 456, 1, -1>>, <<457, 457, 1, -2>>, <<459, 459, 1, -1>>, <<460, 460, 1, -2>>,
     <<462, 476, 2, -1>>, <<477, 477, 1, -79>>, <<479, 495, 2, -1>>, <<498, 498, 1, -1>>,
     <<499, 499, 1, -2>>, <<501, 501, 1, -1>>, <<505, 543, 2, -1>>, <<547, 563, 2, -1>>,
     <<572, 572, 1, -1>>, <<575, 576, 1, 10815>>, <<578, 578, 1, -1>>, <<583, 591, 2, -1>>,
     <<592, 592, 1, 10783>>, <<593, 593, 1, 10780>>, <<594, 594, 1, 10782>>, <<595, 595, 1, -210>>,
     <<596, 596, 1, -206>>, <<598, 599, 1, -205>>, <<601, 601, 1, -202>>, <<603, 603, 1, -203>>,
     <<604, 604, 1, 42319>>, <<608, 608, 1, -205>>, <<609, 609, 1, 42315>>, <<611, 611, 1, -207>>,
     <<612, 612, 1, 42343>>, <<613, 613, 1, 42280>>, <<614, 614, 1, 42308>>, <<616, 616, 1, -209>>,
     <<617, 617, 1, -211>>, <<618, 618, 1, 42308>>, <<619, 619, 1, 10743>>, <<620, 620, 1, 42305>>,
     <<623, 623, 1, -211>>, <<625, 625, 1, 10749>>, <<626, 626, 1, -213>>, <<629, 629, 1, -214>>,
     <<637, 637, 1, 10727>>, <<640, 640, 1, -218>>, <<642, 642, 1, 42307>>, <<643, 643, 1, -218>>,
     <<647, 647, 1, 42282>>, <<648, 648, 1, -218>>, <<649, 649, 1, -69>>, <<650, 651, 1, -217>>,
     <<652, 652, 1, -71>>, <<658, 658, 1, -219>>, <<669, 669, 1, 42261>>, <<670, 670, 1, 42258>>,
     <<837, 837, 1, 84>>, <<881, 883, 2, -1>>, <<887, 887, 1, -1>>, <<891, 893, 1, 130>>,
     <<940, 940, 1, -38>>, <<941, 943, 1, -37>>, <<945, 961, 1, -32>>, <<962, 962, 1, -31>>,
     <<963, 971, 1, -32>>, <<972, 972, 1, -64>>, <<973, 974, 1, -63>>, <<976, 976, 1, -62>>,
     <<977, 977, 1, -57>>, <<981, 981, 1, -47>>, <<982, 982, 1, -54>>, <<983, 983, 1, -8>>,
     <<985, 1007, 2, -1>>, <<1008, 1008, 1, -86>>, <<1009, 1009, 1, -80>>, <<1010, 1010, 1, 7>>,
     <<1011, 1011, 1, -116>>, <<1013, 1013, 1, -96>>, <<1016, 1016, 1, -1>>, <<1019, 1019, 1, -1>>,
     <<1072, 1103, 1, -32>>, <<1104, 1119, 1, -80>>, <<1121, 1153, 2, -1>>, <<1163, 1215, 2, -1>>,
     <<1218, 1230, 2, -1>>, <<1231, 1231, 1, -15>>, <<1233, 1327, 2, -1>>, <<1377, 1414, 1, -48>>,
     <<4304, 4346, 1, 3008>>, <<4349, 4351, 1, 3008>>, <<5112, 5117, 1, -8>>, <<7296, 7296, 1, -6254>>,
     <<7297, 7297, 1, -6253>>, <<7298, 7298, 1, -6244>>, <<7299, 7300, 1, -6242>>, <<7301, 7301, 1, -6243>>,
     <<7302, 7302, 1, -6236>>, <<7303, 7303, 1, -6181>>, <<7304, 7304, 1, 35266>>, <<7306, 7306, 1, -1>>,
     <<7545, 7545, 1, 35332>>, <<7549, 7549, 1, 3814>>, <<7566, 7566, 1, 35384>>, <<7681, 7829, 2, -1>>,
     <<7835, 7835, 1, -59>>, <<7841, 7935, 2, -1>>, <<7936, 7943, 1, 8>>, <<7952, 7957, 1, 8>>,
     <<7968, 7975, 1, 8>>, <<7984, 7991, 1, 8>>, <<8000, 8005, 1, 8>>, <<8017, 8023, 2, 8>>,
     <<8032, 8039, 1, 8>>, <<8048, 8049, 1, 74>>, <<8050, 8053, 1, 86>>, <<8054, 8055, 1, 100>>,
     <<8056, 8057, 1, 128>>, <<8058, 8059, 1, 112>>, <<8060, 8061, 1, 126>>, <<8112, 8113, 1, 8>>,
     <<8126, 8126, 1, -7205>>, <<8144, 8145, 1, 8>>, <<8160, 8161, 1, 8>>, <<8165, 8165, 1, 7>>,
     <<8526, 8526, 1, -28>>, <<8560, 8575, 1, -16>>, <<8580, 8580, 1, -1>>, <<9424, 9449, 1, -26>>,
     <<11312, 11359, 1, -48>>, <<11361, 11361, 1, -1>>, <<11365, 11365, 1, -10795>>, <<11366, 11366, 1, -10792>>,
     <<11368, 11372, 2, -1>>, <<11379, 11379, 1, -1>>, <<11382, 11382, 1, -1>>, <<11393, 11491, 2, -1>>,
     <<11500, 11502, 2, -1>>, <<11507, 11507, 1, -1>>, <<11520, 11557, 1, -7264>>, <<11559, 11559, 1, -7264>>,
     <<11565, 11565, 1, -7264>>, <<42561, 42605, 2, -1>>, <<42625, 42651, 2, -1>>, <<42787, 42799, 2, -1>>,
     <<42803, 42863, 2, -1>>, <<42874, 42876, 2, -1>>, <<42879, 42887, 2, -1>>, <<42892, 42892, 1, -1>>,
     <<42897, 42899, 2, -1>>, <<42900, 42900, 1, 48>>, <<42903, 42921, 2, -1>>, <<42933, 42947, 2, -1>>,
     <<42952, 42954, 2, -1>>, <<42957, 42971, 2, -1>>, <<42998, 42998, 1, -1>>, <<43859, 43859, 1, -928>>,
     <<43888, 43967, 1, -38864>>, <<65345, 65370, 1, -32>>, <<66600, 66639, 1, -40>>, <<66776, 66811, 1, -40>>,
     <<66967, 66977, 1, -39>>, <<66979, 66993, 1, -39>>, <<66995, 67001, 1, -39>>, <<67003, 67004, 1, -39>>,
     <<68800, 68850, 1, -64>>, <<68976, 68997, 1, -32>>, <<71872, 71903, 1, -32>>, <<93792, 93823, 1, -32>>,
     <<93883, 93907, 1, -27>>, <<125218, 125251, 1, -34>>
    >>

\* The code points whose upper case is several code points
SpecialUpperCase ==
    <<
     <<223, <<83, 83>>>>, <<329, <<700, 78>>>>, <<496, <<74, 780>>>>,
     <<912, <<921, 776, 769>>>>, <<944, <<933, 776, 769>>>>, <<1415, <<1333, 1362>>>>,
     <<7830, <<72, 817>>>>, <<7831, <<84, 776>>>>, <<7832, <<87, 778>>>>,
     <<7833, <<89, 778>>>>, <<7834, <<65, 702>>>>, <<8016, <<933, 787>>>>,
     <<8018, <<933, 787, 768>>>>, <<8020, <<933, 787, 769>>>>, <<8022, <<933, 787, 834>>>>,
     <<8064, <<7944, 921>>>>, <<8065, <<7945, 921>>>>, <<8066, <<7946, 921>>>>,
     <<8067, <<7947, 921>>>>, <<8068, <<7948, 921>>>>, <<8069, <<7949, 921>>>>,
     <<8070, <<7950, 921>>>>, <<8071, <<7951, 921>>>>, <<8072, <<7944, 921>>>>,
     <<8073, <<7945, 921>>>>, <<8074, <<7946, 921>>>>, <<8075, <<7947, 921>>>>,
     <<8076, <<7948, 921>>>>, <<8077, <<7949, 921>>>>, <<8078, <<7950, 921>>>>,
     <<8079, <<7951, 921>>>>, <<8080, <<7976, 921>>>>, <<8081, <<7977, 921>>>>,
     <<8082, <<7978, 921>>>>, <<8083, <<7979, 921>>>>, <<8084, <<7980, 921>>>>,
     <<8085, <<7981, 921>>>>, <<8086, <<7982, 921>>>>, <<8087, <<7983, 921>>>>,
     <<8088, <<7976, 921>>>>, <<8089, <<7977, 921>>>>, <<8090, <<7978, 921>>>>,
     <<8091, <<7979, 921>>>>, <<8092, <<7980, 921>>>>, <<8093, <<7981, 921>>>>,
     <<8094, <<7982, 921>>>>, <<8095, <<7983, 921>>>>, <<8096, <<8040, 921>>>>,
     <<8097, <<8041, 921>>>>, <<8098, <<8042, 921>>>>, <<8099, <<8043, 921>>>>,
     <<8100, <<8044, 921>>>>, <<8101, <<8045, 921>>>>, <<8102, <<8046, 921>>>>,
     <<8103, <<8047, 921>>>>, <<8104, <<8040, 921>>>>, <<8105, <<8041, 921>>>>,
     <<8106, <<8042, 921>>>>, <<8107, <<8043, 921>>>>, <<8108, <<8044, 921>>>>,
     <<8109, <<8045, 921>>>>, <<8110, <<8046, 921>>>>, <<8111, <<8047, 921>>>>,
     <<8114, <<8122, 921>>>>, <<8115, <<913, 921>>>>, <<8116, <<902, 921>>>>,
     <<8118, <<913, 834>>>>, <<8119, <<913, 834, 921>>>>, <<8124, <<913, 921>>>>,
     <<8130, <<8138, 921>>>>, <<8131, <<919, 921>>>>, <<8132, <<905, 921>>>>,
     <<8134, <<919, 834>>>>, <<8135, <<919, 834, 921>>>>, <<8140, <<919, 921>>>>,
     <<8146, <<921, 776, 768>>>>, <<8147, <<921, 776, 769>>>>, <<8150, <<921, 834>>>>,
     <<8151, <<921, 776, 834>>>>, <<8162, <<933, 776, 768>>>>, <<8163, <<933, 776, 769>>>>,
     <<8164, <<929, 787>>>>, <<8166, <<933, 834>>>>, <<8167, <<933, 776, 834>>>>,
     <<8178, <<8186, 921>>>>, <<8179, <<937, 921>>>>, <<8180, <<911, 921>>>>,
     <<8182, <<937, 834>>>>, <<8183, <<937, 834, 921>>>>, <<8188, <<937, 921>>>>,
     <<64256, <<70, 70>>>>, <<64257, <<70, 73>>>>, <<64258, <<70, 76>>>>,
     <<64259, <<70, 70, 73>>>>, <<64260, <<70, 70, 76>>>>, <<64261, <<83, 84>>>>,
     <<64262, <<83, 84>>>>, <<64275, <<1348, 1350>>>>, <<64276, <<1348, 1333>>>>,
     <<64277, <<1348, 1339>>>>, <<64278, <<1358, 1350>>>>, <<64279, <<1348, 1341>>>>
    >>

\* The ranges of the code points with the property Case_Ignorable
CaseIgnorableRanges ==
    {
     <<39, 39>>, <<46, 46>>, <<58, 58>>, <<94, 94>>, <<96, 96>>,
     <<168, 168>>, <<173, 173>>, <<175, 175>>, <<180, 180>>, <<183, 184>>,
     <<688, 879>>, <<884, 885>>, <<890, 890>>, <<900, 901>>, <<903, 903>>,
     <<1155, 1161>>, <<1369, 1369>>, <<1375, 1375>>, <<1425, 1469>>, <<1471, 1471>>,
     <<1473, 1474>>, <<1476, 1477>>, <<1479, 1479>>, <<1524, 1524>>, <<1536, 1541>>,
     <<1552, 1562>>, <<1564, 1564>>, <<1600, 1600>>, <<1611, 1631>>, <<1648, 1648>>,
     <<1750, 1757>>, <<1759, 1768>>, <<1770, 1773>>, <<1807, 1807>>, <<1809, 1809>>,
     <<1840, 1866>>, <<1958, 1968>>, <<2027, 2037>>, <<2042, 2042>>, <<2045, 2045>>,
     <<2070, 2093>>, <<2137, 2139>>, <<2184, 2184>>, <<2192, 2193>>, <<2199, 2207>>,
     <<2249, 2306>>, <<2362, 2362>>, <<2364, 2364>>, <<2369, 2376>>, <<2381, 2381>>,
     <<2385, 2391>>, <<2402, 2403>>, <<2417, 2417>>, <<2433, 2433>>, <<2492, 2492>>,
     <<2497, 2500>>, <<2509, 2509>>, <<2530, 2531>>, <<2558, 2558>>, <<2561, 2562>>,
     <<2620, 2620>>, <<2625, 2626>>, <<2631, 2632>>, <<2635, 2637>>, <<2641, 2641>>,
     <<2672, 2673>>, <<2677, 2677>>, <<2689, 2690>>, <<2748, 2748>>, <<2753, 2757>>,
     <<2759, 2760>>, <<2765, 2765>>, <<2786, 2787>>, <<2810, 2815>>, <<2817, 2817>>,
     <<2876, 2876>>, <<2879, 2879>>, <<2881, 2884>>, <<2893, 2893>>, <<2901, 2902>>,
     <<2914, 2915>>, <<2946, 2946>>, <<3008, 3008>>, <<3021, 3021>>, <<3072, 3072>>,
     <<3076, 3076>>, <<3132, 3132>>, <<3134, 3136>>, <<3142, 3144>>, <<3146, 3149>>,
     <<3157, 3158>>, <<3170, 3171>>, <<3201, 3201>>, <<3260, 3260>>, <<3263, 3263>>,
     <<3270, 3270>>, <<3276, 3277>>, <<3298, 3299>>, <<3328, 3329>>, <<3387, 3388>>,
     <<3393, 3396>>, <<3405, 3405>>, <<3426, 3427>>, <<3457, 3457>>, <<3530, 3530>>,
     <<3538, 3540>>, <<3542, 3542>>, <<3633, 3633>>, <<3636, 3642>>, <<3654, 3662>>,
     <<3761, 3761>>, <<3764, 3772>>, <<3782, 3782>>, <<3784, 3790>>, <<3864, 3865>>,
     <<3893, 3893>>, <<3895, 3895>>, <<3897, 3897>>, <<3953, 3966>>, <<3968, 3972>>,
     <<3974, 3975>>, <<3981, 3991>>, <<3993, 4028>>, <<4038, 4038>>, <<4141, 4144>>,
     <<4146, 4151>>, <<4153, 4154>>, <<4157, 4158>>, <<4184, 4185>>, <<4190, 4192>>,
     <<4209, 4212>>, <<4226, 4226>>, <<4229, 4230>>, <<4237, 4237>>, <<4253, 4253>>,
     <<4348, 4348>>, <<4957, 4959>>, <<5906, 5908>>, <<5938, 5939>>, <<5970, 5971>>,
     <<6002, 6003>>, <<6068, 6069>>, <<6071, 6077>>, <<6086, 6086>>, <<6089, 6099>>,
     <<6103, 6103>>, <<6109, 6109>>, <<6155, 6159>>, <<6211, 6211>>, <<6277, 6278>>,
     <<6313, 6313>>, <<6432, 6434>>, <<6439, 6440>>, <<6450, 6450>>, <<6457, 6459>>,
     <<6679, 6680>>, <<6683, 6683>>, <<6742, 6742>>, <<6744, 6750>>, <<6752, 6752>>,
     <<6754, 6754>>, <<6757, 6764>>, <<6771, 6780>>, <<6783, 6783>>, <<6823, 6823>>,
     <<6832, 6877>>, <<6880, 6891>>, <<6912, 6915>>, <<6964, 6964>>, <<6966, 6970>>,
     <<6972, 6972>>, <<6978, 6978>>, <<7019, 7027>>, <<7040, 7041>>, <<7074, 7077>>,
     <<7080, 7081>>, <<7083, 7085>>, <<7142, 7142>>, <<7144, 7145>>, <<7149, 7149>>,
     <<7151, 7153>>, <<7212, 7219>>, <<7222, 7223>>, <<7288, 7293>>, <<7376, 7378>>,
     <<7380, 7392>>, <<7394, 7400>>, <<7405, 7405>>, <<7412, 7412>>, <<7416, 7417>>,
     <<7468, 7530>>, <<7544, 7544>>, <<7579, 7679>>, <<8125, 8125>>, <<8127, 8129>>,
     <<8141, 8143>>, <<8157, 8159>>, <<8173, 8175>>, <<8189, 8190>>, <<8203, 8207>>,
     <<8216, 8217>>, <<8228, 8228>>, <<8231, 8231>>, <<8234, 8238>>, <<8288, 8292>>,
     <<8294, 8303>>, <<8305, 8305>>, <<8319, 8319>>, <<8336, 8348>>, <<8400, 8432>>,
     <<11388, 11389>>, <<11503, 11505>>, <<11631, 11631>>, <<11647, 11647>>, <<11744, 11775>>,
     <<11823, 11823>>, <<12293, 12293>>, <<12330, 12333>>, <<12337, 12341>>, <<12347, 12347>>,
     <<12441, 12446>>, <<12540, 12542>>, <<40981, 40981>>, <<42232, 42237>>, <<42508, 42508>>,
     <<42607, 42610>>, <<42612, 42621>>, <<42623, 42623>>, <<42652, 42655>>, <<42736, 42737>>,
     <<42752, 42785>>, <<42864, 42864>>, <<42888, 42890>>, <<42993, 42996>>, <<43000, 43001>>,
     <<43010, 43010>>, <<43014, 43014>>, <<43019, 43019>>, <<43045, 43046>>, <<43052, 43052>>,
     <<43204, 43205>>, <<43232, 43249>>, <<43263, 43263>>, <<43302, 43309>>, <<43335, 43345>>,
     <<43392, 43394>>, <<43443, 43443>>, <<43446, 43449>>, <<43452, 43453>>, <<43471, 43471>>,
     <<43493, 43494>>, <<43561, 43566>>, <<43569, 43570>>, <<43573, 43574>>, <<43587, 43587>>,
     <<43596, 43596>>, <<43632, 43632>>, <<43644, 43644>>, <<43696, 43696>>, <<43698, 43700>>,
     <<43703, 43704>>, <<43710, 43711>>, <<43713, 43713>>, <<43741, 43741>>, <<43756, 43757>>,
     <<43763, 43764>>, <<43766, 43766>>, <<43867, 43871>>, <<43881, 43883>>, <<44005, 44005>>,
     <<44008, 44008>>, <<44013, 44013>>, <<64286, 64286>>, <<64434, 64450>>, <<65024, 65039>>,
     <<65043, 65043>>, <<65056, 65071>>, <<65106, 65106>>, <<65109, 65109>>, <<65279, 65279>>,
     <<65287, 65287>>, <<65294, 65294>>, <<65306, 65306>>, <<65342, 65342>>, <<65344, 65344>>,
     <<65392, 65392>>, <<65438, 65439>>, <<65507, 65507>>, <<65529, 65531>>, <<66045, 66045>>,
     <<66272, 66272>>, <<66422, 66426>>, <<67456, 67461>>, <<67463, 67504>>, <<67506, 67514>>,
     <<68097, 68099>>, <<68101, 68102>>, <<68108, 68111>>, <<68152, 68154>>, <<68159, 68159>>,
     <<68325, 68326>>, <<68900, 68903>>, <<68942, 68942>>, <<68969, 68973>>, <<68975, 68975>>,
     <<69291, 69292>>, <<69317, 69317>>, <<69370, 69375>>, <<69446, 69456>>, <<69506, 69509>>,
     <<69633, 69633>>, <<69688, 69702>>, <<69744, 69744>>, <<69747, 69748>>, <<69759, 69761>>,
     <<69811, 69814>>, <<69817, 69818>>, <<69821, 69821>>, <<69826, 69826>>, <<69837, 69837>>,
     <<69888, 69890>>, <<69927, 69931>>, <<69933, 69940>>, <<70003, 70003>>, <<70016, 70017>>,
     <<70070, 70078>>, <<70089, 70092>>, <<70095, 70095>>, <<70191, 70193>>, <<70196, 70196>>,
     <<70198, 70199>>, <<70206, 70206>>, <<70209, 70209>>, <<70367, 70367>>, <<70371, 70378>>,
     <<70400, 70401>>, <<70459, 70460>>, <<70464, 70464>>, <<70502, 70508>>, <<70512, 70516>>,
     <<70587, 70592>>, <<70606, 70606>>, <<70608, 70608>>, <<70610, 70610>>, <<70625, 70626>>,
     <<70712, 70719>>, <<70722, 70724>>, <<70726, 70726>>, <<70750, 70750>>, <<70835, 70840>>,
     <<70842, 70842>>, <<70847, 70848>>, <<70850, 70851>>, <<71090, 71093>>, <<71100, 71101>>,
     <<71103, 71104>>, <<71132, 71133>>, <<71219, 71226>>, <<71229, 71229>>, <<71231, 71232>>,
     <<71339, 71339>>, <<71341, 71341>>, <<71344, 71349>>, <<71351, 71351>>, <<71453, 71453>>,
     <<71455, 71455>>, <<71458, 71461>>, <<71463, 71467>>, <<71727, 71735>>, <<71737, 71738>>,
     <<71995, 71996>>, <<71998, 71998>>, <<72003, 72003>>, <<72148, 72151>>, <<72154, 72155>>,
     <<72160, 72160>>, <<72193, 72202>>, <<72243, 72248>>, <<72251, 72254>>, <<72263, 72263>>,
     <<72273, 72278>>, <<72281, 72283>>, <<72330, 72342>>, <<72344, 72345>>, <<72544, 72544>>,
     <<72546, 72548>>, <<72550, 72550>>, <<72752, 72758>>, <<72760, 72765>>, <<72767, 72767>>,
     <<72850, 72871>>, <<72874, 72880>>, <<72882, 72883>>, <<72885, 72886>>, <<73009, 73014>>,
     <<73018, 73018>>, <<73020, 73021>>, <<73023, 73029>>, <<73031, 73031>>, <<73104, 73105>>,
     <<73109, 73109>>, <<73111, 73111>>, <<73177, 73177>>, <<73459, 73460>>, <<73472, 73473>>,
     <<73526, 73530>>, <<73536, 73536>>, <<73538, 73538>>, <<73562, 73562>>, <<78896, 78912>>,
     <<78919, 78933>>, <<90398, 90409>>, <<90413, 90415>>, <<92912, 92916>>, <<92976, 92982>>,
     <<92992, 92995>>, <<93504, 93506>>, <<93547, 93548>>, <<94031, 94031>>, <<94095, 94111>>,
     <<94176, 94177>>, <<94179, 94180>>, <<94194, 94195>>, <<110576, 110579>>, <<110581, 110587>>,
     <<110589, 110590>>, <<113821, 113822>>, <<113824, 113827>>, <<118528, 118573>>, <<118576, 118598>>,
     <<119143, 119145>>, <<119155, 119170>>, <<119173, 119179>>, <<119210, 119213>>, <<119362, 119364>>,
     <<121344, 121398>>, <<121403, 121452>>, <<121461, 121461>>, <<121476, 121476>>, <<121499, 121503>>,
     <<121505, 121519>>, <<122880, 122886>>, <<122888, 122904>>, <<122907, 122913>>, <<122915, 122916>>,
     <<122918, 122922>>, <<122928, 122989>>, <<123023, 123023>>, <<123184, 123197>>, <<123566, 123566>>,
     <<123628, 123631>>, <<124139, 124143>>, <<124398, 124399>>, <<124643, 124643>>, <<124646, 124646>>,
     <<124654, 124655>>, <<124661, 124661>>, <<124671, 124671>>, <<125136, 125142>>, <<125252, 125259>>,
     <<127995, 127999>>, <<917505, 917505>>, <<917536, 917631>>, <<917760, 917999>>
    }

\* The ranges of the code points with the property Cased that are not
\* Case_Ignorable
CasedRanges ==
    {
     <<65, 90>>, <<97, 122>>, <<170, 170>>, <<181, 181>>, <<186, 186>>,
     <<192, 214>>, <<216, 246>>, <<248, 442>>, <<444, 447>>, <<452, 659>>,
     <<662, 687>>, <<880, 883>>, <<886, 887>>, <<891, 893>>, <<895, 895>>,
     <<902, 902>>, <<904, 906>>, <<908, 908>>, <<910, 929>>, <<931, 1013>>,
     <<1015, 1153>>, <<1162, 1327>>, <<1329, 1366>>, <<1376, 1416>>, <<4256, 4293>>,
     <<4295, 4295>>, <<4301, 4301>>, <<4304, 4346>>, <<4349, 4351>>, <<5024, 5109>>,
     <<5112, 5117>>, <<7296, 7306>>, <<7312, 7354>>, <<7357, 7359>>, <<7424, 7467>>,
     <<7531, 7543>>, <<7545, 7578>>, <<7680, 7957>>, <<7960, 7965>>, <<7968, 8005>>,
     <<8008, 8013>>, <<8016, 8023>>, <<8025, 8025>>, <<8027, 8027>>, <<8029, 8029>>,
     <<8031, 8061>>, <<8064, 8116>>, <<8118, 8124>>, <<8126, 8126>>, <<8130, 8132>>,
     <<8134, 8140>>, <<8144, 8147>>, <<8150, 8155>>, <<8160, 8172>>, <<8178, 8180>>,
     <<8182, 8188>>, <<8450, 8450>>, <<8455, 8455>>, <<8458, 8467>>, <<8469, 8469>>,
     <<8473, 8477>>, <<8484, 8484>>, <<8486, 8486>>, <<8488, 8488>>, <<8490, 8493>>,
     <<8495, 8500>>, <<8505, 8505>>, <<8508, 8511>>, <<8517, 8521>>, <<8526, 8526>>,
     <<8544, 8575>>, <<8579, 8580>>, <<9398, 9449>>, <<11264, 11387>>, <<11390, 11492>>,
     <<11499, 11502>>, <<11506, 11507>>, <<11520, 11557>>, <<11559, 11559>>, <<11565, 11565>>,
     <<42560, 42605>>, <<42624, 42651>>, <<42786, 42863>>, <<42865, 42887>>, <<42891, 42894>>,
     <<42896, 42972>>, <<42997, 42998>>, <<43002, 43002>>, <<43824, 43866>>, <<43872, 43880>>,
     <<43888, 43967>>, <<64256, 64262>>, <<64275, 64279>>, <<65313, 65338>>, <<65345, 65370>>,
     <<66560, 66639>>, <<66736, 66771>>, <<66776, 66811>>, <<66928, 66938>>, <<66940, 66954>>,
     <<66956, 66962>>, <<66964, 66965>>, <<66967, 66977>>, <<66979, 66993>>, <<66995, 67001>>,
     <<67003, 67004>>, <<68736, 68786>>, <<68800, 68850>>, <<68944, 68965>>, <<68976, 68997>>,
     <<71840, 71903>>, <<93760, 93823>>, <<93856, 93880>>, <<93883, 93907>>, <<119808, 119892>>,
     <<119894, 119964>>, <<119966, 119967>>, <<119970, 119970>>, <<119973, 119974>>, <<119977, 119980>>,
     <<119982, 119993>>, <<119995, 119995>>, <<119997, 120003>>, <<120005, 120069>>, <<120071, 120074>>,
     <<120077, 120084>>, <<120086, 120092>>, <<120094, 120121>>, <<120123, 120126>>, <<120128, 120132>>,
     <<120134, 120134>>, <<120138, 120144>>, <<120146, 120485>>, <<120488, 120512>>, <<120514, 120538>>,
     <<120540, 120570>>, <<120572, 120596>>, <<120598, 120628>>, <<120630, 120654>>, <<120656, 120686>>,
     <<120688, 120712>>, <<120714, 120744>>, <<120746, 120770>>, <<120772, 120779>>, <<122624, 122633>>,
     <<122635, 122654>>, <<122661, 122666>>, <<125184, 125251>>, <<127280, 127305>>, <<127312, 127337>>,
     <<127344, 127369>>
    }

LowerCase == SpecialMapping(SpecialLowerCase) @@ SimpleMapping(LowerCaseRanges)
UpperCase == SpecialMapping(SpecialUpperCase) @@ SimpleMapping(UpperCaseRanges)
LowerCased == DOMAIN LowerCase
UpperCased == DOMAIN UpperCase

CaseIgnorable(point) ==
    \E r \in CaseIgnorableRanges : r[1] <= point /\ point <= r[2]

Cased(point) == \E r \in CasedRanges : r[1] <= point /\ point <= r[2]

\* The condition Final_Sigma for the code point k of points: a cased letter
\* comes before it and none after it, the code points that are
\* Case_Ignorable between them not counted.
FinalSigma(points, k) ==
    LET final(before, after) ==
            /\ before # {}
            /\ Cased(points[CHOOSE j \in before : \A i \in before : i <= j])
            /\ \/ after = {}
               \/ ~Cased(points[CHOOSE j \in after : \A i \in after : j <= i])
    IN final({j \in 1..(k - 1) : ~CaseIgnorable(points[j])},
             {j \in (k + 1)..Len(points) : ~CaseIgnorable(points[j])})

\* String.prototype.toLowerCase
toLowerCase(string) ==
    LET points == StringToCodePoints(string)
    IN CodePointsToString(
           Flat([k \in 1..Len(points) |->
                    IF points[k] = 931
                    THEN IF FinalSigma(points, k) THEN <<962>> ELSE <<963>>
                    ELSE IF points[k] \in LowerCased THEN LowerCase[points[k]]
                    ELSE <<points[k]>>]))

\* String.prototype.toUpperCase
toUpperCase(string) ==
    LET points == StringToCodePoints(string)
    IN CodePointsToString(
           Flat([k \in 1..Len(points) |->
                    IF points[k] \in UpperCased THEN UpperCase[points[k]]
                    ELSE <<points[k]>>]))

\* SearchMenu.populate: the items it registers, in the order of its calls
\* of addSearchMenuItem, with the names as the source writes them.
WrittenItems ==
    LET greekLetters ==
            <<"alpha", "beta", "gamma", "delta", "epsilon", "zeta", "eta", "theta",
              "iota", "kappa", "lambda", "mu", "nu", "xi", "omicron", "pi", "rho",
              "sigma", "tau", "upsilon", "phi", "chi", "psi", "omega">>
        functions ==
            <<<<"sin", "Sine">>, <<"cos", "Cosine">>,
              <<"tan", "Tangent">>, <<"csc", "Cosecant">>,
              <<"sec", "Secant">>, <<"cot", "Cotangent">>,
              <<"arccos", "Inverse Cosine">>, <<"arcsin", "Inverse Sine">>,
              <<"arctan", "Inverse Tangent">>, <<"arccsc", "Inverse Cosecant">>,
              <<"arcsec", "Inverse Secant">>, <<"arccot", "Inverse Cotangent">>,
              <<"sinh", "Hyperbolic Sine">>, <<"cosh", "Hyperbolic Cosine">>,
              <<"tanh", "Hyperbolic Tangent">>, <<"csch", "Hyperbolic Cosecant">>,
              <<"sech", "Hyperbolic Secant">>, <<"coth", "Hyperbolic Cotangent">>,
              <<"arcsinh", "Inverse Hyperbolic Sine">>, <<"arccosh", "Inverse Hyperbolic Cosine">>,
              <<"arctanh", "Inverse Hyperbolic Tangent">>, <<"arccsch", "Inverse Hyperbolic Cosecant">>,
              <<"arcsech", "Inverse Hyperbolic Secant">>, <<"arccoth", "Inverse Hyperbolic Cotangent">>,
              <<"log", "Logarithm">>, <<"ln", "Natural Logarithm">>,
              <<"adj", "Adjugate">>, <<"arg", "Argument of">>,
              <<"argmax", "Argument of Maximum">>, <<"argmin", "Argument of Minimum">>,
              <<"cov", "Covariance">>, <<"crd", "Chord">>,
              <<"deg", "Degree Function">>, <<"det", "Determinant">>,
              <<"dim", "Dimension">>, <<"erf", "Error Function">>,
              <<"exp", "Exponential Function">>, <<"gcd", "Greatest Common Denominator">>,
              <<"ker", "Kernel">>, <<"lcm", "Least Common Multiple">>,
              <<"lerp", "Linear Interpolation Function">>, <<"mod", "Modulo Function">>,
              <<"rank", "Rank">>, <<"sgn", "Sign Function">>,
              <<"Si", "Sine Integral Function">>, <<"Ci", "Cosine Integral Function">>>>
        subscriptableFunctions == <<"Infimum", "Maximum", "Minimum", "Supremum">>
        letters == "ABCDEFGHIJKLMNOPQRSTUVWXYZ"
    IN Flat([k \in 1..Len(greekLetters) |->
                LET letter == greekLetters[k]
                    displayName == StringOf(toUpperCase(CodeUnits(SubSeq(letter, 1, 1))))
                                       \o SubSeq(letter, 2, Len(letter))
                IN <<SymbolItem(displayName, <<>>, "\\" \o letter),
                     SymbolItem("Uppercase " \o displayName, <<"u" \o letter>>,
                                "\\" \o displayName)>>])
       \o <<SymbolItem("Epsilon", <<"varepsilon", "veps">>, "\\varepsilon"),
           SymbolItem("Kappa", <<"varkappa", "vkap">>, "\\varkappa"),
           SymbolItem("Phi", <<"varphi", "vphi">>, "\\varphi"),
           SymbolItem("Nabla", <<"gradient", "divergence", "curl">>, "\\nabla"),
           SymbolItem("Partial Derivative", <<>>, "\\partial"),
           SymbolItem("Imaginary Component", <<>>, "\\Im"),
           SymbolItem("Real Component", <<>>, "\\Re"),
           SymbolItem("Natural Numbers", <<>>, "\\N"),
           SymbolItem("Integers", <<"z">>, "\\Z"),
           SymbolItem("Rational Numbers", <<"q">>, "\\mathbb{Q}"),
           SymbolItem("Real Numbers", <<>>, "\\R"),
           SymbolItem("Complex Numbers", <<>>, "\\Complex"),
           SymbolItem("Cursive L", <<"l">>, "\\ell"),
           SymbolItem("Aleph", <<>>, "\\aleph"),
           SymbolItem("Universal Quantifier", <<"forall">>, "\\forall"),
           SymbolItem("Existential Quantifier", <<"exists">>, "\\exists"),
           SymbolItem("Negated Existential Quantifier", <<"nexists">>, "\\nexists"),
           SymbolItem("Subset", <<>>, "\\subseteq"),
           SymbolItem("Strict Subset", <<"subset">>, "\\subset"),
           SymbolItem("Superset", <<>>, "\\supseteq"),
           SymbolItem("Strict Superset", <<"supset">>, "\\supset"),
           SymbolItem("Logical AND", <<"land">>, "\\land"),
           SymbolItem("Logical OR", <<"lor">>, "\\lor"),
           SymbolItem("Negation", <<"neg", "not", "logical not">>, "\\neg"),
           SymbolItem("Empty Set", <<>>, "\\empty"),
           SymbolItem("Empty Set", <<"varnothing">>, "\\varnothing"),
           SymbolItem("Therefore", <<>>, "\\therefore"),
           SymbolItem("Because", <<>>, "\\because"),
           SymbolItem("Element of", <<"in">>, "\\in"),
           SymbolItem("Not an Element of", <<"notin">>, "\\notin"),
           SymbolItem("Center Dots", <<"ellipsis">>, "\\cdots")>>
       \o [k \in 1..Len(functions) |->
              LET functionName == functions[k][1]
                  displayName == functions[k][2]
              IN SymbolItem(displayName, <<functionName>>,
                            "{\\operatorname{" \o functionName \o "}}")]
       \o <<SymbolItem("Plus/Minus", <<"pm">>, "\\pm"),
           SymbolItem("Not Equal to", <<"neq">>, "\\neq"),
           SymbolItem("Less Than or Equal to", <<"leq">>, "\\leq"),
           SymbolItem("Greater than or Equal to", <<"geq">>, "\\geq"),
           SymbolItem("Much Greater than", <<"gg">>, "\\gg"),
           SymbolItem("Much Less than", <<"ll">>, "\\ll"),
           SymbolItem("Equivalent to", <<>>, "\\equiv"),
           SymbolItem("Congruent to", <<>>, "\\cong"),
           SymbolItem("Approximately", <<>>, "\\approx"),
           SymbolItem("Divided By", <<"div">>, "\\div"),
           SymbolItem("Union", <<"cup">>, "\\cup"),
           SymbolItem("Intersection", <<"cap">>, "\\cap"),
           SymbolItem("Set Subtraction", <<>>, "\\setminus"),
           NodeItem("Fraction", <<>>, Fraction),
           NodeItem("Integral", <<>>, IntegralType("int")),
           NodeItem("Double Integral", <<"iiint">>, IntegralType("iint")),
           NodeItem("Triple Integral", <<"iiint">>, IntegralType("iiint")),
           NodeItem("Contour Integral", <<>>, IntegralType("oint")),
           NodeItem("Double Contour Integral", <<"iiint">>, IntegralType("oiint")),
           NodeItem("Triple Contour Integral", <<"iiint">>, IntegralType("oiiint")),
           NodeItem("Evaluated from", <<>>, EvaluatedFrom),
           NodeItem("Summation", <<"sigma">>, Sum),
           NodeItem("Product", <<"pi">>, Product),
           NodeItem("Union Notation", <<>>, BigUnion),
           NodeItem("Intersection Notation", <<>>, BigIntersection)>>
       \o Flat([k \in 1..Len(subscriptableFunctions) |->
                   LET funcDisplayName == subscriptableFunctions[k]
                       funcName == StringOf(toLowerCase(CodeUnits(SubSeq(funcDisplayName, 1, 3))))
                   IN <<NodeItem(funcDisplayName, <<>>, SubscriptableFunction(funcName)),
                        SymbolItem(funcDisplayName, <<>>, "\\" \o funcName)>>])
       \o <<NodeItem("Square Root", <<"sqrt">>, CommandEnclosable("\\sqrt")),
           NodeItem("Cube Root", <<>>, CommandEnclosable("\\sqrt[3]")),
           NodeItem("Fourth Root", <<>>, CommandEnclosable("\\sqrt[4]")),
           NodeItem("Nth Root", <<>>, CommandEnclosable("\\sqrt[n]")),
           NodeItem("Limit", <<>>, Limit),
           NodeItem("Vector Notation", <<>>, CommandEnclosable("\\vec")),
           NodeItem("Bar Notation", <<>>, CommandEnclosable("\\bar")),
           NodeItem("Dot Notation", <<>>, CommandEnclosable("\\dot")),
           NodeItem("Hat Notation", <<>>, CommandEnclosable("\\hat")),
           NodeItem("Tilde Notation", <<>>, CommandEnclosable("\\tilde")),
           NodeItem("Cancel", <<>>, CommandEnclosable("\\cancel")),
           NodeItem("Absolute Value", <<>>, Bracket("|", "|")),
           NodeItem("Norm", <<>>, Bracket("\\lVert", "\\rVert"))>>
       \o [k \in 1..Len(letters) |->
              LET letter == SubSeq(letters, k, k)
              IN SymbolItem("Calligraphic " \o letter, <<"mathcal " \o letter>>,
                            "{\\mathcal{" \o letter \o "}}")]
       \o [k \in 1..Len(letters) |->
              LET letter == SubSeq(letters, k, k)
              IN SymbolItem("Script " \o letter, <<"mathscr " \o letter>>,
                            "{\\mathscr{" \o letter \o "}}")]
       \o <<SymbolItem("Infinity", <<"infty">>, "\\infty"),
           SymbolItem("Filled Black Square", <<"black square", "qed">>, "\\blacksquare"),
           SymbolItem("Circle", <<>>, "\\circ"),
           SymbolItem("Degree", <<>>, "\\degree"),
           SymbolItem("Checkmark", <<>>, "\\checkmark"),
           SymbolItem("Angle", <<>>, "\\angle"),
           SymbolItem("Short Right Arrow", <<"to", "approaches", "right arrow">>, "\\to"),
           SymbolItem("Short Left Arrow", <<"gets", "left arrow">>, "\\gets"),
           SymbolItem("Long Left Arrow", <<>>, "\\longleftarrow"),
           SymbolItem("Long Right Arrow", <<>>, "\\longrightarrow"),
           SymbolItem("Implies", <<"double arrow">>, "\\implies"),
           SymbolItem("Implied by", <<"double arrow">>, "\\impliedby"),
           SymbolItem("If and Only If", <<>>, "\\iff")>>

\* The items populate() registers
PopulatedItems == [k \in 1..Len(WrittenItems) |-> Named(WrittenItems[k])] \o <<>>

(***************************************************************************)
(* SearchMenuRegistry.search.  A similarity score is a quotient of two     *)
(* lengths, kept as numerator and denominator.                             *)
(***************************************************************************)
\* The code units String.prototype.trim removes at both ends: the WhiteSpace
\* and LineTerminator code points of ECMAScript, which are TAB, LF, VT, FF,
\* CR, SP, NBSP (160), the other space separators of Unicode (5760,
\* 8192..8202, 8239, 8287, 12288), LS (8232), PS (8233) and ZWNBSP (65279).
WhiteSpace ==
    {9, 10, 11, 12, 13, 32, 160, 5760, 8232, 8233, 8239, 8287, 12288, 65279}
        \cup 8192..8202

\* String.prototype.trim
RECURSIVE trim(_)
trim(string) ==
    IF string = <<>> THEN <<>>
    ELSE IF string[1] \in WhiteSpace
    THEN trim(Tail(string))
    ELSE IF string[Len(string)] \in WhiteSpace
    THEN trim(SubSeq(string, 1, Len(string) - 1))
    ELSE string

\* String.prototype.startsWith
startsWith(string, searchString) ==
    /\ Len(searchString) <= Len(string)
    /\ SubSeq(string, 1, Len(searchString)) = searchString

\* String.prototype.includes, on short strings
includes(string, searchString) ==
    \E i \in 1..(Len(string) - Len(searchString) + 1) :
        SubSeq(string, i, i + Len(searchString) - 1) = searchString

Quotient(num, den) == [num |-> num, den |-> den]

\* a > b for quotients of non-negative numbers with positive denominators
GreaterThan(a, b) == a.num * b.den > b.num * a.den

\* SearchMenuRegistry._stringSimilarity, called with a non-empty query
_stringSimilarity(query, to) ==
    LET similarity(q, t) ==
            IF startsWith(t, q) THEN Quotient(Len(q), Len(t))
            ELSE IF includes(t, q) THEN Quotient(Len(q), Len(t) * 2)
            ELSE Quotient(0, 1)
    IN similarity(toLowerCase(query), toLowerCase(to))

\* The largest similarity among the results, a non-empty array
MathMaxOf(results) ==
    LET scores == {results[k].similarity : k \in 1..Len(results)}
    IN CHOOSE a \in scores : \A b \in scores : ~GreaterThan(b, a)

\* Math.max(...scores) of a non-empty array
RECURSIVE MathMax(_)
MathMax(scores) ==
    IF Len(scores) = 1 THEN scores[1]
    ELSE LET rest == MathMax(Tail(scores))
         IN IF GreaterThan(rest, scores[1]) THEN rest ELSE scores[1]

\* results.sort((a, b) => b.similarity - a.similarity): Array.prototype.sort
\* is stable, so the results of the largest similarity come first, in the
\* order they had, and the others follow them, sorted the same way.
RECURSIVE sort(_)
sort(results) ==
    IF results = <<>> THEN <<>>
    ELSE LET largest == MathMaxOf(results)
             first(r) == ~GreaterThan(largest, r.similarity)
             others(r) == GreaterThan(largest, r.similarity)
         IN SelectSeq(results, first) \o sort(SelectSeq(results, others))

\* The loop of search over this._items
searchResults(items, query) ==
    LET scored ==
            [k \in 1..Len(items) |->
                LET item == items[k]
                    searchableNames == <<item.displayName>> \o item.searchableAliases
                    largestSimilarityScore ==
                        MathMax([n \in 1..Len(searchableNames) |->
                                     _stringSimilarity(query, searchableNames[n])])
                IN [item |-> item, similarity |-> largestSimilarityScore]]
        found(r) == GreaterThan(r.similarity, Quotient(0, 1))
    IN SelectSeq(scored, found)

\* SearchMenuRegistry._items: the items the calls added, in order
_items(calls) ==
    Flat([k \in 1..Len(calls) |->
             IF calls[k] = Populated THEN PopulatedItems ELSE <<calls[k]>>])

\* SearchMenu.addSearchMenuItem: SearchMenuRegistry.addItem pushes the item
addSearchMenuItem(s, item) ==
    [s EXCEPT !.registered = Append(@, item), !.ret = NoValue]

\* SearchMenu.populate: addSearchMenuItem for each of its items
populate(s) ==
    [s EXCEPT !.registered = Append(@, Populated), !.ret = NoValue]

\* SearchMenuRegistry.search on the registry items
search(items, query) ==
    LET q == trim(query)
    IN IF q = <<>> THEN <<>>
       ELSE LET itemsOf(sorted) == [k \in 1..Len(sorted) |-> sorted[k].item]
            IN itemsOf(sort(searchResults(items, q)))

(***************************************************************************)
(* The registry the constructor populated, with the items the host adds,  *)
(* searched with queries of every kind.                                    *)
(***************************************************************************)
MaxItems == 1   \* calls of addSearchMenuItem and populate after the constructor

\* Items the host adds: one whose name is a query, one with the name of an
\* item populate() adds, and three with names beyond ASCII: "Elan" with
\* E acute (U+00C9), the Greek word of the capital letters omicron, delta,
\* omicron, sigma (U+039F U+0394 U+039F U+03A3), and twice the capital I
\* with dot above (U+0130).
ElanItem == SymbolItem(<<201, 108, 97, 110>>, <<>>, "\\acute{E}")
OdosItem == SymbolItem(<<927, 916, 927, 931>>, <<>>, "\\Sigma")
DottedItem == SymbolItem(<<304, 304>>, <<>>, "\\dot{I}")

ItemPool ==
    {Named(SymbolItem("P", <<>>, "\\wp")),
     Named(SymbolItem("Pi", <<"varpi">>, "\\varpi")),
     ElanItem, OdosItem, DottedItem}

\* Registries: what populate() of the constructor and the calls after it
\* leave.
Registries ==
    {<<Populated>> \o calls :
        calls \in UNION {[1..n -> ItemPool \cup {Populated}] : n \in 0..MaxItems}}

\* Queries: the empty one; space and CR; "PI" between TAB and FF, SP; "p";
\* "fr"; "p" after VT (U+000B); e acute (U+00E9) between NBSP (U+00A0) and
\* the ideographic space (U+3000); ZWNBSP (U+FEFF) and the em space
\* (U+2003) alone; the capital sigma (U+03A3); "i".
Queries ==
    {<<>>, <<32, 13>>, <<9, 80, 73, 12, 32>>, CodeUnits("p"), CodeUnits("fr"),
     <<11, 112>>, <<160, 233, 12288>>, <<65279, 8195>>, <<931>>, CodeUnits("i")}

\* search on the registries with the queries, evaluated once
Searched ==
    [calls \in Registries, query \in Queries |-> search(_items(calls), query)]

\* this._registry.search(query)
registrySearch(s, query) ==
    IF s.registered \in Registries /\ query \in Queries
    THEN Searched[s.registered, query]
    ELSE search(_items(s.registered), query)

\* The keydown handler of the search field for the key Enter, results being
\* the array this._registry.search returned for the query in the field
enterInSearchField(s, results) ==
    IF Len(results) = 0 THEN [s EXCEPT !.ret = NoValue]
    ELSE selectResult(s, results[1])

\* The host adds an item to the registry.
AddSearchMenuItem ==
    /\ Len(registered) <= MaxItems
    /\ \E item \in ItemPool :
        Call("addSearchMenuItem", <<item>>, addSearchMenuItem(Cur, item))

\* The host calls populate() again.
Populate ==
    /\ Len(registered) <= MaxItems
    /\ Call("populate", <<>>, populate(Cur))

\* A query typed into the search field of the open menu
Search ==
    /\ popups > 0
    /\ \E query \in Queries :
        Call("search", <<query>>, [Cur EXCEPT !.ret = registrySearch(Cur, query)])

\* Enter pressed in the search field holding a query
EnterInSearchField ==
    /\ popups > 0
    /\ CountNodes(root) < MaxKeyedNodes
    /\ \E query \in Queries :
        \E results \in {registrySearch(Cur, query)} :
            Call("Enter", <<query>>, enterInSearchField(Cur, results))

NextSearch ==
    \/ OpenMenu
    \/ AddSearchMenuItem
    \/ Populate
    \/ Search
    \/ EnterInSearchField

SpecSearch == Init /\ [][NextSearch]_vars

(***************************************************************************)
(* What the claims about search say, in their own terms: white space is    *)
(* told by its code unit, and two letters are the same with case ignored   *)
(* when they have the same small letter.                                   *)
(***************************************************************************)
\* White space: the control characters TAB to CR, the space, the no-break
\* space, the spaces of Unicode, the line and paragraph separators and the
\* byte order mark.
Blank(unit) ==
    \/ 9 <= unit /\ unit <= 13
    \/ unit = 32 \/ unit = 160 \/ unit = 5760
    \/ 8192 <= unit /\ unit <= 8202
    \/ unit = 8232 \/ unit = 8233 \/ unit = 8239 \/ unit = 8287
    \/ unit = 12288 \/ unit = 65279

\* The query without the white space at its two ends
Trimmed(query) ==
    LET kept == {k \in 1..Len(query) : ~Blank(query[k])}
    IN IF kept = {} THEN <<>>
       ELSE SubSeq(query, CHOOSE k \in kept : \A i \in kept : k <= i,
                          CHOOSE k \in kept : \A i \in kept : i <= k)

\* The small letter of a capital letter of ASCII, of Latin-1 or of the Greek
\* alphabet and of the capital I with dot above; every other code unit of
\* the names and queries here is no capital letter.
Small(unit) ==
    IF 65 <= unit /\ unit <= 90 THEN unit + 32
    ELSE IF 192 <= unit /\ unit <= 222 /\ unit # 215 THEN unit + 32
    ELSE IF 913 <= unit /\ unit <= 939 /\ unit # 930 THEN unit + 32
    ELSE IF unit = 304 THEN 105
    ELSE unit

\* The names an item is found by
NamesOf(item) == <<item.displayName>> \o item.searchableAliases

\* The query is in the name after i code units, case ignored
IsSubstringAt(part, whole, i) ==
    /\ i + Len(part) <= Len(whole)
    /\ \A k \in 1..Len(part) : Small(whole[i + k]) = Small(part[k])

IsSubstring(part, whole) == \E i \in 0..Len(whole) : IsSubstringAt(part, whole, i)

\* The registered items one of whose names contains the trimmed query, case
\* ignored, in the order of their registration; none for a query that is
\* empty after trimming.
Matching ==
    [calls \in Registries, query \in Queries |->
        LET q == Trimmed(query)
            found(item) ==
                /\ q # <<>>
                /\ \E k \in 1..Len(NamesOf(item)) : IsSubstring(q, NamesOf(item)[k])
        IN SelectSeq(_items(calls), found)]

\* The bag of the elements lo..hi of an array: each as often as it occurs
RECURSIVE BagOfRange(_, _, _)
BagOfRange(array, lo, hi) ==
    IF lo > hi THEN EmptyBag
    ELSE IF lo = hi THEN SetToBag({array[lo]})
    ELSE LET mid == (lo + hi) \div 2
         IN BagOfRange(array, lo, mid) (+) BagOfRange(array, mid + 1, hi)

BagOf(array) == BagOfRange(array, 1, Len(array))

MatchingBag ==
    [calls \in Registries, query \in Queries |-> BagOf(Matching[calls, query])]

\* C35: search(query) returns nothing when the query is empty after trimming;
\* otherwise every registered item one of whose names (display name or alias)
\* contains the trimmed query, case ignored, is in the result exactly once
\* for each of its registrations, and no other item is in it.
C35_SearchReturnsTheMatches ==
    op.name = "search" =>
        /\ Trimmed(op.args[1]) = <<>> => ret = <<>>
        /\ BagOf(ret) = MatchingBag[registered, op.args[1]]

\* The relevance of a name for a trimmed query, as the pair of the numerator
\* and the denominator of the quotient.
NameRelevance(q, name) ==
    IF IsSubstringAt(q, name, 0) THEN <<Len(q), Len(name)>>
    ELSE IF IsSubstring(q, name) THEN <<Len(q), 2 * Len(name)>>
    ELSE <<0, 1>>

AtLeast(a, b) == a[1] * b[2] >= b[1] * a[2]

\* The relevance of an item: the largest relevance of its names
Relevance(q, item) ==
    LET relevances == {NameRelevance(q, NamesOf(item)[k]) : k \in 1..Len(NamesOf(item))}
    IN CHOOSE r \in relevances : \A other \in relevances : AtLeast(r, other)

\* The places of an array of relevances, those of the largest relevance
\* first, in their order, and the others after them likewise
RECURSIVE PlacesByRelevance(_, _)
PlacesByRelevance(relevance, places) ==
    IF places = <<>> THEN <<>>
    ELSE LET left == {relevance[places[k]] : k \in 1..Len(places)}
             top == CHOOSE r \in left : \A other \in left : AtLeast(r, other)
             largest(i) == AtLeast(relevance[i], top)
             smaller(i) == ~largest(i)
         IN SelectSeq(places, largest) \o PlacesByRelevance(relevance, SelectSeq(places, smaller))

\* The matching items in the order of non-increasing relevance, items of
\* equal relevance in the order of their registration.
InOrder ==
    [calls \in Registries, query \in Queries |->
        LET q == Trimmed(query)
            matching == Matching[calls, query]
            n == Len(matching)
            relevance == [k \in 1..n |-> Relevance(q, matching[k])] \o <<>>
            places == PlacesByRelevance(relevance, [k \in 1..n |-> k] \o <<>>)
        IN [p \in 1..n |-> matching[places[p]]] \o <<>>]

\* C36: the items search(query) returns are in order of non-increasing
\* relevance, items of equal relevance in the order of their registration; and
\* Enter in the search field selects the first item of that order: it inserts
\* that item's symbol, or its node, which it enters, at the cursor and closes
\* the menu, and it inserts nothing when the search finds nothing.
C36_SearchOrder ==
    /\ op.name = "search" => ret = InOrder[registered, op.args[1]]
    /\ op.name = "Enter" =>
        LET found == InOrder[registered, op.args[1]]
            before == ExprAt(pre.root, pre.path)
            after == ExprAt(root, pre.path)
        IN IF found = <<>>
           THEN root = pre.root /\ path = pre.path /\ cursorIndex = pre.cursorIndex
           ELSE /\ ~isOpen
                /\ IF found[1].inserts = "character"
                   THEN /\ InsertedAt(before, after, pre.cursorIndex,
                                      MathCharacter(found[1].character))
                        /\ path = pre.path
                        /\ cursorIndex = pre.cursorIndex + 1
                   ELSE /\ InsertedAt(before, after, pre.cursorIndex, found[1].node)
                        /\ path = moveInto(pre.path, pre.cursorIndex, 0)
                        /\ cursorIndex = 0

\* The inputs on which search departs from C35 and C36 here: the capital
\* sigma searched in the name that ends in it, whose lower case ends in the
\* final sigma (U+03C2) while that of the query is the sigma (U+03C3); and
\* "i" searched in the name of two capital I with dot above, whose lower
\* case has four code units.
FinalSigmaInput ==
    /\ op.name \in {"search", "Enter"}
    /\ op.args[1] = <<931>>
    /\ \E k \in 1..Len(registered) : registered[k] = OdosItem

DottedCapitalInput ==
    /\ op.name \in {"search", "Enter"}
    /\ op.args[1] = CodeUnits("i")
    /\ \E k \in 1..Len(registered) : registered[k] = DottedItem

\* On every other input the result is what C35 and C36 say.
SearchAsClaimedOtherwise ==
    \/ FinalSigmaInput
    \/ DottedCapitalInput
    \/ C35_SearchReturnsTheMatches /\ C36_SearchOrder

====
